---- MODULE Spec2Model ----
(***************************************************************************)
(* Model of the Ogem Python SDK (sdk/python/ogem): the synchronous Client, *)
(* its response handling and streaming transport, and the resource classes *)
(* built on it.                                                            *)
(*                                                                         *)
(* Text is modelled as a sequence of tokens.  A token is either a single   *)
(* character (the characters of "data: " and blanks are kept one by one,   *)
(* so that startswith, slicing and strip are computed as the code computes *)
(* them) or a word that the code never looks inside.                       *)
(***************************************************************************)
EXTENDS Integers, Sequences, FiniteSets, TLC

\* Bounds of the model.
MaxLines == 3

-----------------------------------------------------------------------------
(* Python / JSON values.  Every value has the same four fields so that any *)
(* two values can be compared.                                             *)

None == [t |-> "null", s |-> <<>>, n |-> 0, d |-> <<>>]
Str(s) == [t |-> "str", s |-> s, n |-> 0, d |-> <<>>]
Num(n) == [t |-> "int", s |-> <<>>, n |-> n, d |-> <<>>]
Lst(elems) == [t |-> "list", s |-> <<>>, n |-> 0, d |-> elems]
Obj(d) == [t |-> "obj", s |-> <<>>, n |-> 0, d |-> d]
Bool(b) == [t |-> "bool", s |-> <<>>, n |-> IF b THEN 1 ELSE 0, d |-> <<>>]

\* Python truthiness: `if x`, `not x`, `x or y`.
Truthy(v) ==
    CASE v.t = "null" -> FALSE
      [] v.t = "str" -> v.s /= <<>>
      [] v.t = "int" -> v.n /= 0
      [] v.t = "bool" -> v.n /= 0
      [] OTHER -> DOMAIN v.d /= {}

\* dict.get(key, default) on a value known to be a dict.
Get(v, key, default) == IF key \in DOMAIN v.d THEN v.d[key] ELSE default

\* str.lower(), token by token.
LowerTok(tok) ==
    CASE tok = "TENANT" -> "tenant"
      [] tok = "Tenant" -> "tenant"
      [] tok = "SUSPENDED" -> "suspended"
      [] tok = "AUTHENTICATION" -> "authentication"
      [] tok = "Rate" -> "rate"
      [] tok = "Limit" -> "limit"
      [] OTHER -> tok

lower(s) == [i \in DOMAIN s |-> LowerTok(s[i])]

\* `sub in s` for two texts.
Contains(s, sub) ==
    \E i \in 0..(Len(s) - Len(sub)) : SubSeq(s, i + 1, i + Len(sub)) = sub

\* str.startswith(prefix).
startswith(s, prefix) ==
    Len(s) >= Len(prefix) /\ SubSeq(s, 1, Len(prefix)) = prefix

IsSpace(tok) == tok \in {" ", "\t"}

RECURSIVE lstrip(_)
lstrip(s) == IF s /= <<>> /\ IsSpace(Head(s)) THEN lstrip(Tail(s)) ELSE s

RECURSIVE rstrip(_)
rstrip(s) ==
    IF s /= <<>> /\ IsSpace(s[Len(s)]) THEN rstrip(SubSeq(s, 1, Len(s) - 1)) ELSE s

\* str.strip().
strip(s) == rstrip(lstrip(s))

\* str(x) / f"{x}" of a value.
Text(v) ==
    CASE v.t = "str" -> v.s
      [] v.t = "int" -> <<ToString(v.n)>>
      [] v.t = "null" -> <<"None">>
      [] v.t = "list" -> <<"[...]">>
      [] OTHER -> <<"{...}">>

-----------------------------------------------------------------------------
(* Exceptions (exceptions.py).  cls is the class of the exception object;  *)
(* message is str(e); cause is the class of the exception it was built     *)
(* from, if any.  Of the attributes the subclasses add, retry_after and    *)
(* limit_type are kept; tenant_id, field_errors, model_id and provider     *)
(* reach the object only through details.                                  *)

NoExc ==
    [cls |-> "", message |-> <<>>, status_code |-> None, error_type |-> None,
     error_code |-> None, details |-> None, retry_after |-> None,
     limit_type |-> None, cause |-> ""]

\* APIError.__init__: the text handed to OgemError.__init__.
full_message(message, status_code, error_type, error_code) ==
    LET m0 == Text(message)
        m1 == IF Truthy(status_code)
              THEN <<"[", ToString(status_code.n), "]", " ">> \o m0 ELSE m0
        m2 == IF Truthy(error_type) THEN Text(error_type) \o <<":", " ">> \o m1
              ELSE m1
    IN  IF Truthy(error_code)
        THEN m2 \o <<" ", "(code: ">> \o Text(error_code) \o <<")">>
        ELSE m2

OgemError(message, cause) ==
    [NoExc EXCEPT !.cls = "OgemError", !.message = message, !.cause = cause]

APIError(message, status_code, error_type, error_code, details) ==
    [NoExc EXCEPT !.cls = "APIError",
                  !.message = full_message(message, status_code, error_type,
                                           error_code),
                  !.status_code = status_code, !.error_type = error_type,
                  !.error_code = error_code,
                  !.details = IF Truthy(details) THEN details ELSE Obj(<<>>)]

AuthenticationError(message) ==
    [APIError(message, Num(401), Str(<<"authentication_error">>), None, None)
        EXCEPT !.cls = "AuthenticationError"]

RateLimitError(message, retry_after, limit_type) ==
    [APIError(message, Num(429), Str(<<"rate_limit_error">>), None,
              Obj([retry_after |-> retry_after, limit_type |-> limit_type]))
        EXCEPT !.cls = "RateLimitError", !.retry_after = retry_after,
               !.limit_type = limit_type]

TenantError(message, tenant) ==
    [APIError(message, Num(403), Str(<<"tenant_error">>), None,
              Obj([tenant_id |-> tenant]))
        EXCEPT !.cls = "TenantError"]

ValidationError(message, field_errors) ==
    [APIError(message, Num(422), Str(<<"validation_error">>), None,
              Obj([field_errors |->
                      IF Truthy(field_errors) THEN field_errors ELSE Obj(<<>>)]))
        EXCEPT !.cls = "ValidationError"]

ModelError(message, model_id) ==
    [APIError(message, None, Str(<<"model_error">>), None,
              Obj([model_id |-> model_id]))
        EXCEPT !.cls = "ModelError"]

ProviderError(message, provider) ==
    [APIError(message, None, Str(<<"provider_error">>), None,
              Obj([provider |-> provider]))
        EXCEPT !.cls = "ProviderError"]

StreamError(message) ==
    [NoExc EXCEPT !.cls = "StreamError", !.message = <<"Stream error: ">> \o message]

\* exceptions.TimeoutError and exceptions.ConnectionError: subclasses of
\* OgemError, not of APIError, and not the builtins of the same names.
TimeoutError(message) ==
    [NoExc EXCEPT !.cls = "ogem.TimeoutError", !.message = message]

ConnectionError(message) ==
    [NoExc EXCEPT !.cls = "ogem.ConnectionError", !.message = message]

\* An exception raised by the interpreter or the standard library.
PyError(cls, message) == [NoExc EXCEPT !.cls = cls, !.message = message]

-----------------------------------------------------------------------------
(* Results of a call: a returned value or a raised exception.              *)

NoResult == [kind |-> "none", value |-> None, exc |-> NoExc]
Return(v) == [kind |-> "return", value |-> v, exc |-> NoExc]
Raise(e) == [kind |-> "raise", value |-> None, exc |-> e]

-----------------------------------------------------------------------------
(* HTTP responses.  text is response.text; isjson says whether             *)
(* response.json() parses it, and json is the value it then returns.       *)

Body(text, isjson, json) == [text |-> text, isjson |-> isjson, json |-> json]

Response(status_code, body) ==
    [status_code |-> status_code, text |-> body.text, isjson |-> body.isjson,
     json |-> body.json]

NoResponse == Response(0, Body(<<>>, FALSE, None))

\* The status codes a server answers with.
Statuses == {200, 201, 204, 400, 401, 403, 404, 422, 429, 500, 503}

\* Error bodies a server answers with.
ErrorBodies ==
    { Body(<<>>, FALSE, None),
      Body(<<"Bad Gateway">>, FALSE, None),
      Body(<<"{...}">>, TRUE,
           Obj([error |-> Obj([type |-> Str(<<"tenant", "_", "not", "_", "found">>),
                               message |-> Str(<<"unknown account">>)])])),
      Body(<<"{...}">>, TRUE,
           Obj([error |-> Obj([type |-> Str(<<"TENANT", "_", "SUSPENDED">>)])])),
      Body(<<"{...}">>, TRUE,
           Obj([error |-> Obj([type |-> Str(<<"forbidden">>),
                               message |-> Str(<<"tenant", " ", "is", " ", "suspended">>)])])),
      Body(<<"{...}">>, TRUE,
           Obj([error |-> Obj([type |-> Str(<<"rate", "_", "limit", "_", "exceeded">>),
                               message |-> Str(<<"slow down">>),
                               retry_after |-> Num(30),
                               limit_type |-> Str(<<"requests">>)])])),
      Body(<<"{...}">>, TRUE,
           Obj([error |-> Obj([message |-> Str(<<"slow down">>),
                               limit_type |-> Str(<<"tokens">>)])])),
      Body(<<"{...}">>, TRUE,
           Obj([type |-> Str(<<"invalid", "_", "request">>),
                message |-> Str(<<"bad field">>)])),
      Body(<<"{}">>, TRUE, Obj(<<>>)),
      Body(<<"{...}">>, TRUE, Obj([error |-> Str(<<"boom">>)])),
      Body(<<"{...}">>, TRUE,
           Obj([error |-> Obj([type |-> None, message |-> Str(<<"no type">>)])])),
      Body(<<"[]">>, TRUE, Lst(<<>>)),
      Body(<<"[...]">>, TRUE, Lst(<<Str(<<"error">>)>>)),
      Body(<<"5">>, TRUE, Num(5)),
      Body(<<"\"", "internal", " ", "error", "\"">>, TRUE,
           Str(<<"internal", " ", "error">>)),
      Body(<<"null">>, TRUE, None) }

\* Success bodies: one per declared response record, and a plain mapping.
SuccessBodies ==
    { Body(<<"{...}">>, TRUE,
           Obj([id |-> Str(<<"c1">>), object |-> Str(<<"chat.completion">>),
                created |-> Num(1), model |-> Str(<<"m">>), choices |-> Lst(<<>>),
                usage |-> Obj(<<>>)])),
      Body(<<"{...}">>, TRUE,
           Obj([object |-> Str(<<"list">>), data |-> Lst(<<>>),
                model |-> Str(<<"m">>), usage |-> Obj(<<>>)])),
      Body(<<"{...}">>, TRUE,
           Obj([id |-> Str(<<"m">>), object |-> Str(<<"model">>),
                created |-> Num(1), owned_by |-> Str(<<"o">>)])),
      Body(<<"{...}">>, TRUE,
           Obj([object |-> Str(<<"list">>), data |-> Lst(<<>>)])),
      Body(<<"{...}">>, TRUE, Obj([status |-> Str(<<"ok">>)])) }

Bodies == ErrorBodies \cup SuccessBodies

\* What the transport does with a request.
Transports == {"ok", "timeout", "connect", "other"}

-----------------------------------------------------------------------------
(* client.py: Client._parse_error_response, _handle_response and           *)
(* _make_request.  Each yields a result: the value returned or the         *)
(* exception raised.                                                       *)

\* The mapping built by the `except:` branch of _parse_error_response.
error_fallback(response) ==
    Obj([message |->
            Str(IF response.text /= <<>> THEN response.text
                ELSE <<"HTTP", " ", ToString(response.status_code)>>)])

\* Mutant: the except clause catches only the JSON decoding error.
_parse_error_response_narrow(response) ==
    IF ~response.isjson
    THEN Return(error_fallback(response))
    ELSE LET error_data == response.json
         IN  CASE error_data.t = "obj" ->
                    IF "error" \in DOMAIN error_data.d
                    THEN Return(error_data.d["error"])
                    ELSE Return(error_data)
               [] error_data.t = "list" -> Return(error_data)
               [] OTHER -> Raise(PyError("TypeError", <<"not iterable">>))

_parse_error_response(response) ==
    IF ~response.isjson
    THEN Return(error_fallback(response))
    ELSE LET error_data == response.json
         IN  CASE error_data.t = "obj" ->
                    IF "error" \in DOMAIN error_data.d
                    THEN Return(error_data.d["error"])
                    ELSE Return(error_data)
               [] error_data.t = "list" ->
                    \* error_data["error"] on a list is a TypeError
                    IF \E i \in DOMAIN error_data.d : error_data.d[i] = Str(<<"error">>)
                    THEN Return(error_fallback(response))
                    ELSE Return(error_data)
               [] error_data.t = "str" ->
                    \* error_data["error"] on a str is a TypeError
                    IF Contains(error_data.s, <<"error">>)
                    THEN Return(error_fallback(response))
                    ELSE Return(error_data)
               [] OTHER ->
                    \* `"error" in` a number or None is a TypeError
                    Return(error_fallback(response))

AttributeError == PyError("AttributeError", <<"object has no attribute">>)

\* error_data.get(key, default): only a dict has get.
error_get(error_data, key, default) ==
    IF error_data.t = "obj" THEN Return(Get(error_data, key, default))
    ELSE Raise(AttributeError)

_handle_response(response) ==
    LET status == response.status_code
        p == _parse_error_response(response)
        message(default) == error_get(p.value, "message", Str(default))
        type == error_get(p.value, "type", None)
    IN  IF status = 200
        THEN IF response.isjson THEN Return(response.json)
             ELSE Raise(PyError("JSONDecodeError", <<"Expecting value">>))
        ELSE IF status = 401
        THEN Raise(AuthenticationError(Str(<<"Invalid API key">>)))
        ELSE IF p.kind = "raise" THEN p
        ELSE IF status = 403
        THEN LET ty == error_get(p.value, "type", Str(<<>>))
             IN  IF ty.kind = "raise" THEN ty
                 ELSE IF ty.value.t /= "str" THEN Raise(AttributeError)
                 ELSE IF Contains(lower(ty.value.s), <<"tenant">>)
                 THEN Raise(TenantError(message(<<"Tenant access denied">>).value, None))
                 ELSE Raise(APIError(message(<<"Access denied">>).value,
                                     Num(status), type.value, None, None))
        ELSE IF status = 422
        THEN IF message(<<>>).kind = "raise" THEN message(<<>>)
             ELSE Raise(ValidationError(message(<<"Validation error">>).value,
                                        None))
        ELSE IF status = 429
        THEN IF message(<<>>).kind = "raise" THEN message(<<>>)
             ELSE Raise(RateLimitError(message(<<"Rate limit exceeded">>).value,
                                       None, None))
        ELSE IF message(<<>>).kind = "raise" THEN message(<<>>)
             ELSE Raise(APIError(message(<<"HTTP", " ", ToString(status)>>).value,
                                 Num(status), type.value, None, None))

\* The exception the transport raises when it fails: a timeout, a refused
\* connection, or any other failure.
TransportError(transport) ==
    CASE transport = "timeout" ->
            PyError("httpx.TimeoutException", <<"The read operation timed out">>)
      [] transport = "connect" ->
            PyError("httpx.ConnectError", <<"Connection refused">>)
      [] OTHER -> PyError("httpx.HTTPError", <<"transport error">>)

\* Mutant: no except clause, the exception of the transport leaves as it is.
_make_request_raw(transport, response) ==
    IF transport /= "ok" THEN Raise(TransportError(transport))
    ELSE _handle_response(response)

\* Client._make_request(stream=False): the request is sent, the transport
\* fails or answers, and every exception raised inside the try block,
\* those of _handle_response included, is converted by an except clause.
_make_request(transport, response) ==
    CASE transport = "timeout" ->
            Raise(OgemError(<<"Request timed out">>,
                            TransportError(transport).cls))
      [] transport = "connect" ->
            Raise(OgemError(<<"Failed to connect to Ogem server">>,
                            TransportError(transport).cls))
      [] transport = "other" ->
            Raise(OgemError(<<"Request failed: ">>
                                \o TransportError(transport).message,
                            TransportError(transport).cls))
      [] OTHER ->
            LET r == _handle_response(response)
            IN  IF r.kind = "raise"
                THEN Raise(OgemError(<<"Request failed: ">> \o r.exc.message,
                                     r.exc.cls))
                ELSE r

-----------------------------------------------------------------------------
(* Streaming transport: Client._handle_stream_response.                    *)

\* The characters of "data: ".
DataPrefix == <<"d", "a", "t", "a", ":", " ">>

Done == <<"[DONE]">>

\* The lines a server sends on a streaming response.
StreamLines ==
    { DataPrefix \o <<"{chunk1}">>,
      DataPrefix \o <<"{chunk2}">>,
      DataPrefix \o <<"{choices}">>,
      DataPrefix \o <<"not json">>,
      DataPrefix,
      DataPrefix \o Done,
      DataPrefix \o Done \o <<" ">>,
      <<"d", "a", "t", "a", ":", "{chunk1}">>,
      <<>> }

\* The streams of at most n lines.
Streams(n) == UNION {[1..k -> StreamLines] : k \in 0..n}

\* Mutant: the sentinel is yielded like any other payload.
RECURSIVE iter_lines_no_break(_, _)
iter_lines_no_break(lines, pos) ==
    IF pos >= Len(lines)
    THEN [kind |-> "stop", pos |-> pos, data |-> <<>>]
    ELSE LET line == lines[pos + 1]
         IN  IF startswith(line, DataPrefix)
             THEN [kind |-> "yield", pos |-> pos + 1,
                   data |-> SubSeq(line, 7, Len(line))]
             ELSE iter_lines_no_break(lines, pos + 1)

\* One resumption of the generator's `for line in response.iter_lines()`
\* loop, pos lines having been read: it runs to the next yield or to the
\* end of the loop.
RECURSIVE iter_lines(_, _)
iter_lines(lines, pos) ==
    IF pos >= Len(lines)
    THEN [kind |-> "stop", pos |-> pos, data |-> <<>>]
    ELSE LET line == lines[pos + 1]
             data == SubSeq(line, 7, Len(line))
         IN  IF startswith(line, DataPrefix)
             THEN IF strip(data) = Done
                  THEN [kind |-> "stop", pos |-> pos + 1, data |-> <<>>]
                  ELSE [kind |-> "yield", pos |-> pos + 1, data |-> data]
             ELSE iter_lines(lines, pos + 1)

\* The first resumption of the generator: response_stream.__enter__()
\* sends the request; a transport failure or an exception of
\* _handle_response is converted by `except Exception`.  (The body of the
\* error response is taken to be readable, as for a non-streaming one;
\* whatever _handle_response raises, the class that leaves is OgemError.)
_handle_stream_response(transport, response) ==
    IF transport /= "ok"
    THEN Raise(OgemError(<<"Stream error: ">> \o TransportError(transport).message,
                         TransportError(transport).cls))
    ELSE LET r == _handle_response(response)
         IN  IF response.status_code /= 200
             THEN Raise(OgemError(<<"Stream error: ">> \o r.exc.message, r.exc.cls))
             ELSE NoResult

-----------------------------------------------------------------------------
(* resources.py and types.py.                                              *)

\* cls(**data) for a dataclass with the given required and optional
\* fields: anything but a mapping with exactly such keys is a TypeError.
dataclass(required, optional, data) ==
    IF /\ data.t = "obj"
       /\ required \subseteq DOMAIN data.d
       /\ DOMAIN data.d \subseteq required \cup optional
    THEN Return(data)
    ELSE Raise(PyError("TypeError", <<"__init__() got unexpected arguments">>))

ChatCompletion(data) ==
    dataclass({"id", "object", "created", "model", "choices", "usage"},
              {"system_fingerprint"}, data)

ChatCompletionChunk(data) ==
    dataclass({"id", "object", "created", "model", "choices"},
              {"system_fingerprint"}, data)

EmbeddingResponse(data) ==
    dataclass({"object", "data", "model", "usage"}, {}, data)

Model(data) ==
    dataclass({"id", "object", "created", "owned_by"}, {"permission"}, data)

ModelList(data) == dataclass({"object", "data"}, {}, data)

\* json.loads of a payload; blanks around the document are ignored.
json_loads(text) ==
    LET doc == strip(text)
        chunk(id) ==
            Obj([id |-> Str(<<id>>), object |-> Str(<<"chat.completion.chunk">>),
                 created |-> Num(1), model |-> Str(<<"m">>), choices |-> Lst(<<>>)])
    IN  CASE doc = <<"{chunk1}">> -> Return(chunk("c1"))
          [] doc = <<"{chunk2}">> -> Return(chunk("c2"))
          [] doc = <<"{choices}">> -> Return(Obj([choices |-> Lst(<<>>)]))
          [] doc = <<"5">> -> Return(Num(5))
          [] OTHER -> Raise(PyError("JSONDecodeError", <<"Expecting value">>))

\* Mutant: the decoding error is not converted.
_create_stream_line_unwrapped(line) ==
    IF strip(line) = Done
    THEN [kind |-> "break", value |-> None, exc |-> NoExc]
    ELSE LET chunk_data == json_loads(line)
         IN  IF chunk_data.kind = "raise" THEN chunk_data
             ELSE ChatCompletionChunk(chunk_data.value)

\* The body of the `for line in stream` loop of _create_stream for one
\* line: "break", a chunk to yield, or an exception.
_create_stream_line(line) ==
    IF strip(line) = Done
    THEN [kind |-> "break", value |-> None, exc |-> NoExc]
    ELSE LET chunk_data == json_loads(line)
         IN  IF chunk_data.kind = "raise"
             THEN Raise(StreamError(<<"Failed to parse stream chunk: ">>
                                        \o chunk_data.exc.message))
             ELSE ChatCompletionChunk(chunk_data.value)

\* Mutant: only the model is validated.
ChatCompletions_validate_model_only(model, messages) ==
    IF ~Truthy(model) THEN Raise(ValidationError(Str(<<"model is required">>), None))
    ELSE NoResult

\* Local validation of the resource methods: the exception raised, or
\* NoResult when the arguments pass.
ChatCompletions_validate(model, messages) ==
    IF ~Truthy(model) THEN Raise(ValidationError(Str(<<"model is required">>), None))
    ELSE IF ~Truthy(messages)
    THEN Raise(ValidationError(Str(<<"messages is required">>), None))
    ELSE NoResult

Embeddings_validate(model, input) ==
    IF ~Truthy(model) THEN Raise(ValidationError(Str(<<"model is required">>), None))
    ELSE IF ~Truthy(input)
    THEN Raise(ValidationError(Str(<<"input is required">>), None))
    ELSE NoResult

Models_validate(model_id) ==
    IF ~Truthy(model_id)
    THEN Raise(ValidationError(Str(<<"model_id is required">>), None))
    ELSE NoResult

\* Tenants.usage / limits / settings: the argument, else the client's id.
Tenants_validate(tenant_id, client_tenant_id) ==
    LET t == IF ~Truthy(tenant_id) THEN client_tenant_id ELSE tenant_id
    IN  IF ~Truthy(t)
        THEN Raise(ValidationError(Str(<<"tenant_id is required">>), None))
        ELSE NoResult

-----------------------------------------------------------------------------
(* State.                                                                  *)

VARIABLES
    tenant_id,      \* Client.tenant_id
    op,             \* the operation last called and its arguments
    pc,             \* "idle", "awaiting", "iter", "opening" or "done"
    sent,           \* HTTP requests issued by the operation
    response,       \* the response received, NoResponse if none
    parsed,         \* result of _parse_error_response, if it was called
    handled,        \* result of _handle_response, if it was called
    outcome,        \* what the caller of the operation observes
    lines,          \* the lines of the streaming response
    pos,            \* how many of them the transport iterator has read
    data_yielded,   \* the payloads the transport iterator has yielded
    chunks,         \* the chunks the chunk iterator has yielded
    gen,            \* transport iterator: "none", "suspended", "finished"
                    \* (it ran to its end) or "closed" (closed while suspended)
    exits,          \* calls of response_stream.__exit__
    config,         \* the client's class, base_url, api_key and debug
    request,        \* the last request built by _make_request
    args,           \* arguments of a function of exceptions.py
    ret,            \* what that function returned or raised
    builder,        \* class of the request builder
    builder_data,   \* the builder's self.data
    calls,          \* the setter calls made on the builder, in order
    built,          \* the mappings build() has returned
    returned,       \* what the last setter call returned
    playwright_available,   \* OpenAIPricingScraper.playwright_available
    providers,      \* the providers argument of scrape_all
    cursor,         \* position of scrape_all's loop in providers
    results,        \* results["providers"] of scrape_all
    invoked,        \* the providers whose scrape() scrape_all has called
    scraped,        \* the last scrape(): its provider, the strategies it
                    \* called, its result
    formatted,      \* the lines format_output(data, "go") returned
    max_retries,    \* the max_retries argument the client was built with
    files,          \* the file system the generator runs on
    argv,           \* the generator and its --srcs and --outs lists
    pair,           \* position of process_files' loop in the pairs
    io,             \* the reads and writes process_files has made, in order
    exit_code,      \* how process_files ended
    stdout,         \* what process_files has printed
    tasks           \* the coroutines of the AsyncClient's operations

client_vars ==
    <<tenant_id, op, pc, sent, response, parsed, handled, outcome, lines, pos,
      data_yielded, chunks, gen, exits>>

config_vars == <<config, request, max_retries>>

exceptions_vars == <<args, ret>>

builder_vars == <<builder, builder_data, calls, built, returned>>

scraper_vars ==
    <<playwright_available, providers, cursor, results, invoked, scraped,
      formatted>>

generator_vars == <<files, argv, pair, io, exit_code, stdout>>

async_vars == <<tasks>>

\* What the operations of the client's resources leave alone.
other_vars ==
    <<config_vars, exceptions_vars, builder_vars, scraper_vars, generator_vars,
      async_vars>>

vars == <<client_vars, other_vars>>

Operation(name, stream, a1, a2) ==
    [name |-> name, stream |-> stream, a1 |-> a1, a2 |-> a2]

\* Arguments callers pass.
ModelArgs == {None, Str(<<>>), Str(<<"m">>)}
MessagesArgs == {None, Lst(<<>>), Lst(<<Obj([role |-> Str(<<"user">>)])>>)}
InputArgs == {None, Str(<<>>), Lst(<<>>), Str(<<"text">>)}
TenantArgs == {None, Str(<<>>), Str(<<"t1">>)}

\* The client has made no call yet.
ClientIdle ==
    /\ op = Operation("", FALSE, None, None)
    /\ pc = "idle"
    /\ sent = 0
    /\ response = NoResponse
    /\ parsed = NoResult
    /\ handled = NoResult
    /\ outcome = NoResult
    /\ lines = <<>>
    /\ pos = 0
    /\ data_yielded = <<>>
    /\ chunks = <<>>
    /\ gen = "none"
    /\ exits = 0

\* Client.__init__ / AsyncClient.__init__: the fields besides tenant_id.
\* base_url and api_key are non-empty (the constructor raises ValueError
\* otherwise) and base_url has lost its trailing slashes.
Config(kind, base_url, api_key, debug) ==
    [kind |-> kind, base_url |-> base_url, api_key |-> api_key, debug |-> debug]

NoRequest == [stream |-> FALSE, headers |-> <<>>, tenant_id |-> None]

\* A client built with debug=False that has built no request.
ConfigIdle ==
    /\ config = Config("Client", Str(<<"http://host">>), Str(<<"k1">>), FALSE)
    /\ request = NoRequest
    /\ max_retries = 3

NoArgs == [fn |-> ""]

\* No function of exceptions.py has been called.
ExceptionsIdle ==
    /\ args = NoArgs
    /\ ret = NoResult

\* No request builder exists.
BuilderIdle ==
    /\ builder = ""
    /\ builder_data = <<>>
    /\ calls = <<>>
    /\ built = <<>>
    /\ returned = ""

NoScrape == [provider |-> "", methods |-> <<>>, result |-> NoResult]

\* No PricingAggregator exists.
ScraperIdle ==
    /\ playwright_available = FALSE
    /\ providers = <<>>
    /\ cursor = 0
    /\ results = <<>>
    /\ invoked = <<>>
    /\ scraped = NoScrape
    /\ formatted = <<>>

NoFiles == [path \in {} |-> ""]

\* No generator has been run.
GeneratorIdle ==
    /\ files = NoFiles
    /\ argv = [generator |-> "", srcs |-> <<>>, outs |-> <<>>]
    /\ pair = 0
    /\ io = <<>>
    /\ exit_code = ""
    /\ stdout = <<>>

\* No operation of an AsyncClient has been called.
AsyncIdle == tasks = <<>>

\* Values callers give max_retries: no retry, the default.
MaxRetries == {0, 3}

Init ==
    /\ tenant_id \in {None, Str(<<"t1">>)}
    /\ ClientIdle
    /\ config = Config("Client", Str(<<"http://host">>), Str(<<"k1">>), FALSE)
    /\ request = NoRequest
    /\ max_retries \in MaxRetries
    /\ ExceptionsIdle
    /\ BuilderIdle
    /\ ScraperIdle
    /\ GeneratorIdle
    /\ AsyncIdle

NoStream ==
    /\ lines' = <<>>
    /\ pos' = 0
    /\ data_yielded' = <<>>
    /\ chunks' = <<>>
    /\ gen' = "none"
    /\ exits' = 0

\* The method raises from its local validation.
Rejected(o, result) ==
    /\ op' = o
    /\ pc' = "done"
    /\ sent' = 0
    /\ response' = NoResponse
    /\ parsed' = NoResult
    /\ handled' = NoResult
    /\ outcome' = result
    /\ NoStream
    /\ UNCHANGED <<tenant_id, other_vars>>

\* The method calls self._client._make_request(...), which sends the
\* request and blocks until the transport answers or fails.
Requested(o) ==
    /\ op' = o
    /\ pc' = "awaiting"
    /\ sent' = 1
    /\ response' = NoResponse
    /\ parsed' = NoResult
    /\ handled' = NoResult
    /\ outcome' = NoResult
    /\ NoStream
    /\ UNCHANGED <<tenant_id, other_vars>>

Call(o, validation) ==
    /\ pc \in {"idle", "done"}
    /\ IF validation.kind = "raise" THEN Rejected(o, validation) ELSE Requested(o)

\* The typed record a method builds from the value _make_request returns.
response_record(name, data) ==
    CASE name = "chat.completions.create" -> ChatCompletion(data)
      [] name = "embeddings.create" -> EmbeddingResponse(data)
      [] name = "models.list" -> ModelList(data)
      [] name = "models.retrieve" -> Model(data)
      [] OTHER -> Return(data)

-----------------------------------------------------------------------------
(* Operations.                                                             *)

ChatCompletions_create(model, messages) ==
    Call(Operation("chat.completions.create", FALSE, model, messages),
         ChatCompletions_validate(model, messages))

Embeddings_create(model, input) ==
    Call(Operation("embeddings.create", FALSE, model, input),
         Embeddings_validate(model, input))

Models_list == Call(Operation("models.list", FALSE, None, None), NoResult)

Models_retrieve(model_id) ==
    Call(Operation("models.retrieve", FALSE, model_id, None),
         Models_validate(model_id))

\* a2 records self._client.tenant_id as the method reads it.
Tenants_usage(tenant) ==
    Call(Operation("tenants.usage", FALSE, tenant, tenant_id),
         Tenants_validate(tenant, tenant_id))

Tenants_limits(tenant) ==
    Call(Operation("tenants.limits", FALSE, tenant, tenant_id),
         Tenants_validate(tenant, tenant_id))

Tenants_settings(tenant) ==
    Call(Operation("tenants.settings", FALSE, tenant, tenant_id),
         Tenants_validate(tenant, tenant_id))

health == Call(Operation("health", FALSE, None, None), NoResult)

\* A _make_request that sends the request again, up to max_retries times,
\* when the transport fails.
receive_retrying(transport, resp) ==
    LET r == _make_request(transport, resp)
        answered == transport = "ok"
    IN  /\ pc = "awaiting"
        /\ IF ~answered /\ sent <= max_retries
           THEN /\ sent' = sent + 1
                /\ UNCHANGED <<pc, response, handled, parsed, outcome>>
           ELSE /\ pc' = "done"
                /\ response' = IF answered THEN resp ELSE NoResponse
                /\ handled' = IF answered THEN _handle_response(resp)
                              ELSE NoResult
                /\ parsed' = IF answered /\ resp.status_code \notin {200, 401}
                             THEN _parse_error_response(resp) ELSE NoResult
                /\ outcome' = IF r.kind = "return"
                              THEN response_record(op.name, r.value) ELSE r
                /\ sent' = sent
        /\ UNCHANGED <<tenant_id, op, lines, pos, data_yielded, chunks, gen,
                       exits, other_vars>>

\* The transport answers or fails; _make_request and the calling method
\* run to their end.
receive(transport, resp) ==
    LET r == _make_request(transport, resp)
        answered == transport = "ok"
    IN  /\ pc = "awaiting"
        /\ pc' = "done"
        /\ response' = IF answered THEN resp ELSE NoResponse
        /\ handled' = IF answered THEN _handle_response(resp) ELSE NoResult
        /\ parsed' = IF answered /\ resp.status_code \notin {200, 401}
                     THEN _parse_error_response(resp) ELSE NoResult
        /\ outcome' = IF r.kind = "return" THEN response_record(op.name, r.value)
                      ELSE r
        /\ UNCHANGED <<tenant_id, op, sent, lines, pos, data_yielded, chunks,
                       gen, exits, other_vars>>

\* Client.set_tenant_id, between two steps of the caller.
set_tenant_id(t) ==
    /\ pc \notin {"awaiting", "opening"}
    /\ tenant_id' = t
    /\ UNCHANGED <<op, pc, sent, response, parsed, handled, outcome, lines, pos,
                   data_yielded, chunks, gen, exits, other_vars>>

\* create(stream=True): the arguments are validated and the chunk
\* iterator is returned; nothing is sent before it is iterated.
ChatCompletions_create_stream(model, messages) ==
    LET o == Operation("chat.completions.create", TRUE, model, messages)
        validation == ChatCompletions_validate(model, messages)
    IN  /\ pc \in {"idle", "done"}
        /\ IF validation.kind = "raise"
           THEN Rejected(o, validation)
           ELSE /\ op' = o
                /\ pc' = "iter"
                /\ sent' = 0
                /\ response' = NoResponse
                /\ parsed' = NoResult
                /\ handled' = NoResult
                /\ outcome' = Return(Str(<<"<generator>">>))
                /\ NoStream
                /\ UNCHANGED <<tenant_id, other_vars>>

\* The chunk iterator resumes the transport iterator, ls being the lines
\* of the response and p the number of lines read: it yields a chunk,
\* ends, or raises.
Resume(ls, p) ==
    LET t == iter_lines(ls, p)
        c == _create_stream_line(t.data)
    IN  /\ pos' = t.pos
        /\ IF t.kind = "stop"
           THEN /\ gen' = "finished"
                /\ exits' = exits + 1
                /\ pc' = "done"
                /\ UNCHANGED <<data_yielded, chunks, outcome>>
           ELSE /\ data_yielded' = Append(data_yielded, t.data)
                /\ gen' = "suspended"
                /\ exits' = exits
                /\ chunks' = IF c.kind = "return" THEN Append(chunks, c.value)
                             ELSE chunks
                /\ pc' = IF c.kind = "return" THEN "iter" ELSE "done"
                /\ outcome' = IF c.kind = "raise" THEN c ELSE outcome

\* First next() on the chunk iterator: _make_request(stream=True) builds
\* the transport iterator, whose first resumption sends the request in
\* response_stream.__enter__().
_create_stream_first ==
    /\ pc = "iter"
    /\ sent = 0
    /\ sent' = 1
    /\ pc' = "opening"
    /\ UNCHANGED <<tenant_id, op, response, parsed, handled, outcome, lines, pos,
                   data_yielded, chunks, gen, exits, other_vars>>

\* The transport answers with the status line and the lines ls, or fails;
\* the first next() runs to its end.
stream_receive(transport, resp, ls) ==
    LET h == _handle_stream_response(transport, resp)
        answered == transport = "ok"
    IN  /\ pc = "opening"
        /\ response' = IF answered THEN resp ELSE NoResponse
        /\ handled' = IF answered /\ resp.status_code /= 200
                      THEN _handle_response(resp) ELSE NoResult
        /\ parsed' = IF answered /\ resp.status_code \notin {200, 401}
                     THEN _parse_error_response(resp) ELSE NoResult
        /\ IF h.kind = "raise"
           THEN /\ outcome' = h
                /\ pc' = "done"
                /\ gen' = "finished"
                /\ exits' = exits + 1
                /\ lines' = <<>>
                /\ UNCHANGED <<pos, data_yielded, chunks>>
           ELSE /\ lines' = ls
                /\ Resume(ls, 0)
        /\ UNCHANGED <<tenant_id, op, sent, other_vars>>

\* A later next() on the chunk iterator.
_create_stream_next ==
    /\ pc = "iter"
    /\ sent = 1
    /\ Resume(lines, pos)
    /\ UNCHANGED <<tenant_id, op, sent, response, parsed, handled, lines,
                   other_vars>>

\* The consumer drops the chunk iterator between two chunks: closing it
\* raises GeneratorExit at its yield, and the transport iterator it held,
\* suspended at its own yield, is closed in turn: GeneratorExit passes the
\* `except Exception` and the finally block runs __exit__.
abandon ==
    /\ pc = "iter"
    /\ sent = 1
    /\ gen = "suspended"
    /\ pc' = "done"
    /\ gen' = "closed"
    /\ exits' = exits + 1
    /\ UNCHANGED <<tenant_id, op, sent, response, parsed, handled, outcome,
                   lines, pos, data_yielded, chunks, other_vars>>

\* A collection that does not run the finally block.
collect_leak ==
    /\ pc = "done"
    /\ gen = "suspended"
    /\ gen' = "closed"
    /\ UNCHANGED <<tenant_id, op, pc, sent, response, parsed, handled, outcome,
                   lines, pos, data_yielded, chunks, exits, other_vars>>

\* The transport iterator left suspended by a chunk iterator that ended
\* is closed when it is collected: its finally block runs __exit__.
collect ==
    /\ pc = "done"
    /\ gen = "suspended"
    /\ gen' = "closed"
    /\ exits' = exits + 1
    /\ UNCHANGED <<tenant_id, op, pc, sent, response, parsed, handled, outcome,
                   lines, pos, data_yielded, chunks, other_vars>>

\* Non-streaming answers, and streaming answers: an error status with a
\* body, or status 200 with lines.
Responses == {Response(st, b) : st \in Statuses, b \in Bodies}

StreamResponses ==
    {<<r, <<>>>> : r \in {x \in Responses : x.status_code /= 200}}
        \cup {<<Response(200, Body(<<>>, FALSE, None)), ls>> : ls \in Streams(MaxLines)}

Next ==
    \/ \E m \in ModelArgs, ms \in MessagesArgs : ChatCompletions_create(m, ms)
    \/ \E m \in ModelArgs, ms \in MessagesArgs : ChatCompletions_create_stream(m, ms)
    \/ \E m \in ModelArgs, i \in InputArgs : Embeddings_create(m, i)
    \/ Models_list
    \/ \E m \in ModelArgs : Models_retrieve(m)
    \/ \E t \in TenantArgs : Tenants_usage(t)
    \/ \E t \in TenantArgs : Tenants_limits(t)
    \/ \E t \in TenantArgs : Tenants_settings(t)
    \/ health
    \/ \E tr \in Transports, r \in Responses : receive(tr, r)
    \/ _create_stream_first
    \/ \E tr \in Transports, sr \in StreamResponses : stream_receive(tr, sr[1], sr[2])
    \/ _create_stream_next
    \/ collect
    \/ abandon
    \/ \E t \in TenantArgs : set_tenant_id(t)

Spec == Init /\ [][Next]_vars

-----------------------------------------------------------------------------
(* Properties.                                                             *)

\* A non-streaming operation whose request was answered has ended.
Answered == pc = "done" /\ ~op.stream /\ sent = 1 /\ response.status_code /= 0

\* The exception class the status-code mapping assigns to a status.
MappedClasses(status) ==
    CASE status = 401 -> {"AuthenticationError"}
      [] status = 403 -> {"TenantError", "APIError"}
      [] status = 422 -> {"ValidationError"}
      [] status = 429 -> {"RateLimitError"}
      [] OTHER -> {"APIError"}

\* C1: the exception the caller of a non-streaming operation observes is
\* determined by the response status: 401 AuthenticationError, 403
\* TenantError or APIError, 422 ValidationError, 429 RateLimitError, any
\* other non-2xx status the generic APIError with that status_code.
C1_StatusDeterminesException ==
    (Answered /\ response.status_code \notin 200..299) =>
        /\ outcome.kind = "raise"
        /\ outcome.exc.cls \in MappedClasses(response.status_code)
        /\ outcome.exc.cls = "APIError" =>
               outcome.exc.status_code = Num(response.status_code)

\* C2: a non-streaming response is returned as its parsed JSON body only
\* when the status is 200; every other status, 201 and 204 included,
\* produces an error carrying the status code and the parsed error type and
\* message, never a return value.
C2_OnlyStatus200Returns ==
    Answered =>
        /\ outcome.kind = "return" => response.status_code = 200
        /\ response.status_code /= 200 =>
               /\ outcome.kind = "raise"
               /\ outcome.exc.status_code = Num(response.status_code)
               /\ (parsed.value.t = "obj" /\ "type" \in DOMAIN parsed.value.d) =>
                      outcome.exc.error_type = parsed.value.d["type"]
               /\ (parsed.value.t = "obj" /\ "message" \in DOMAIN parsed.value.d) =>
                      Contains(outcome.exc.message, Text(parsed.value.d["message"]))

\* The parsed error mentions "tenant" in its type or its message.
MentionsTenant(error_data) ==
    /\ error_data.t = "obj"
    /\ \E key \in {"type", "message"} :
          /\ key \in DOMAIN error_data.d
          /\ error_data.d[key].t = "str"
          /\ Contains(lower(error_data.d[key].s), <<"tenant">>)

\* C3: on a 403 response the client raises TenantError if the error type
\* or the error body mentions "tenant", whatever the case of the letters,
\* and otherwise a generic APIError with status_code 403.
C3_TenantErrorOn403 ==
    (Answered /\ response.status_code = 403) =>
        /\ outcome.kind = "raise"
        /\ IF MentionsTenant(parsed.value)
           THEN outcome.exc.cls = "TenantError"
           ELSE outcome.exc.cls = "APIError" /\ outcome.exc.status_code = Num(403)

\* C4: the RateLimitError raised for a 429 response carries the
\* retry_after and limit_type of the error body, and lacks them only when
\* the body lacks them.
C4_RateLimitCarriesRetryAfter ==
    (Answered /\ response.status_code = 429 /\ parsed.value.t = "obj") =>
        /\ outcome.kind = "raise"
        /\ outcome.exc.cls = "RateLimitError"
        /\ outcome.exc.retry_after = Get(parsed.value, "retry_after", None)
        /\ outcome.exc.limit_type = Get(parsed.value, "limit_type", None)

HasDataPrefix(line) ==
    Len(line) >= 6 /\ \A i \in 1..6 : line[i] = DataPrefix[i]

Payload(line) == [i \in 1..(Len(line) - 6) |-> line[i + 6]]

\* The lines before the first line that IsSentinel holds of.
BeforeFirst(ls, IsSentinel(_)) ==
    LET S == {i \in 1..Len(ls) : IsSentinel(ls[i])}
    IN  IF S = {} THEN ls
        ELSE SubSeq(ls, 1, (CHOOSE i \in S : \A j \in S : i <= j) - 1)

\* The payloads of the data lines of ls, in order.
Payloads(ls) ==
    LET d == SelectSeq(ls, HasDataPrefix) IN [i \in 1..Len(d) |-> Payload(d[i])]

IsPrefixOf(a, b) == Len(a) <= Len(b) /\ SubSeq(b, 1, Len(a)) = a

\* The line is exactly "data: [DONE]"; the line is a data line whose
\* payload is "[DONE]" between blanks.
LiteralDone(line) == line = DataPrefix \o Done

BlankDone(line) == HasDataPrefix(line) /\ strip(Payload(line)) = Done

Streaming200 == op.stream /\ response.status_code = 200

\* C6 as stated: for a 200 streaming response the transport iterator
\* yields exactly the payloads of the lines that start with "data: " and
\* come before the first "data: [DONE]" line, in order; the sentinel is
\* never yielded and nothing after it is.
C6_YieldsUntilLiteralDone ==
    Streaming200 =>
        LET expected == Payloads(BeforeFirst(lines, LiteralDone))
        IN  /\ IsPrefixOf(data_yielded, expected)
            /\ gen = "finished" => data_yielded = expected
            /\ \A i \in 1..Len(data_yielded) : data_yielded[i] /= Done

\* C6 amended: the same, the sentinel being the first data line whose
\* payload is "[DONE]" once the blanks around it are stripped.
C6_YieldsUntilDone ==
    Streaming200 =>
        LET expected == Payloads(BeforeFirst(lines, BlankDone))
        IN  /\ IsPrefixOf(data_yielded, expected)
            /\ gen = "finished" => data_yielded = expected
            /\ \A i \in 1..Len(data_yielded) : strip(data_yielded[i]) /= Done

\* C6 witness: the iterator yielded a payload, met the sentinel and ended
\* with a data line left unread behind it.
C6_Witness ==
    /\ Streaming200
    /\ gen = "finished"
    /\ Len(data_yielded) >= 1
    /\ pos < Len(lines)
    /\ BlankDone(lines[pos])
    /\ HasDataPrefix(lines[Len(lines)])

\* C7: for a streaming call whose first response is not 200, the
\* exception of the status-code mapping reaches the consumer before any
\* line is iterated, and no data line is yielded.
C7_StreamStatusMapping ==
    (op.stream /\ pc = "done" /\ sent = 1 /\ response.status_code \notin {0, 200}) =>
        /\ outcome.kind = "raise"
        /\ outcome.exc.cls \in MappedClasses(response.status_code)
        /\ pos = 0
        /\ data_yielded = <<>>
        /\ chunks = <<>>

\* The payload is a JSON object.
JsonObject(data) ==
    json_loads(data).kind = "return" /\ json_loads(data).value.t = "obj"

\* C8: for a 200 streaming response made of n lines "data: <JSON object>"
\* (an object with only "choices", say) followed by "data: [DONE]",
\* create(stream=True) yields exactly n parsed chunks, in order, and stops.
C8_YieldsEveryChunk ==
    (/\ Streaming200
     /\ pc = "done"
     /\ Len(lines) >= 1
     /\ lines[Len(lines)] = DataPrefix \o Done
     /\ \A i \in 1..(Len(lines) - 1) :
           HasDataPrefix(lines[i]) /\ JsonObject(Payload(lines[i])))
    => /\ outcome.kind = "return"
       /\ gen = "finished"
       /\ Len(chunks) = Len(lines) - 1
       /\ \A i \in 1..Len(chunks) : chunks[i] = json_loads(Payload(lines[i])).value

\* C9: when a payload handed to the chunk iterator is not valid JSON, the
\* iterator fails with StreamError at that payload: the chunks of the
\* payloads before it have been yielded, and nothing is read after it.
C9_StreamErrorOnBadJson ==
    Streaming200 =>
        \A i \in 1..Len(data_yielded) :
            json_loads(data_yielded[i]).kind = "raise" =>
                /\ i = Len(data_yielded)
                /\ pc = "done"
                /\ outcome.kind = "raise"
                /\ outcome.exc.cls = "StreamError"
                /\ Len(chunks) = i - 1
                /\ \A j \in 1..(i - 1) : chunks[j] = json_loads(data_yielded[j]).value

\* C9 witness: the iterator failed with StreamError after a chunk, lines
\* being left unread.
C9_Witness ==
    /\ Streaming200
    /\ outcome.exc.cls = "StreamError"
    /\ Len(chunks) >= 1
    /\ json_loads(data_yielded[Len(data_yielded)]).kind = "raise"
    /\ pos < Len(lines)

\* The operation raised a ValidationError and sent nothing.
LocalValidationError ==
    /\ pc = "done"
    /\ outcome.kind = "raise"
    /\ outcome.exc.cls = "ValidationError"
    /\ sent = 0
    /\ response = NoResponse

\* C10: ChatCompletions.create without model or messages, Embeddings.create
\* without model or input, Models.retrieve without model_id and
\* Tenants.usage/limits/settings without a tenant id (argument or client
\* default) raise a local ValidationError and issue no HTTP request, with
\* stream=True as well.
C10_LocalValidation ==
    /\ (op.name \in {"chat.completions.create", "embeddings.create"}
            /\ (~Truthy(op.a1) \/ ~Truthy(op.a2))) => LocalValidationError
    /\ (op.name = "models.retrieve" /\ ~Truthy(op.a1)) => LocalValidationError
    /\ (op.name \in {"tenants.usage", "tenants.limits", "tenants.settings"}
            /\ ~Truthy(op.a1) /\ ~Truthy(op.a2)) => LocalValidationError

\* C10 witness: create(stream=True) with a model and no messages raised.
C10_Witness ==
    /\ op.name = "chat.completions.create"
    /\ op.stream
    /\ Truthy(op.a1)
    /\ op.a2 = Lst(<<>>)
    /\ LocalValidationError

-----------------------------------------------------------------------------
(* exceptions.py: is_retryable_error, get_retry_delay and                  *)
(* create_exception_from_response.                                         *)

MaxAttempt == 3

\* The classes isinstance(error, APIError) accepts.
APIErrorClasses ==
    {"APIError", "AuthenticationError", "RateLimitError", "TenantError",
     "ValidationError", "ModelError", "ProviderError"}

\* Mutant: only the status code decides.
is_retryable_error_status_only(error) ==
    error.status_code /= None /\ error.status_code.n >= 500

is_retryable_error(error) ==
    IF error.cls = "RateLimitError" THEN TRUE
    ELSE IF error.cls \in APIErrorClasses
    THEN error.status_code /= None /\ error.status_code.n >= 500
    ELSE IF error.cls \in {"ogem.TimeoutError", "ogem.ConnectionError"} THEN TRUE
    ELSE FALSE

\* Delays are fixed-point numbers: thousandths of a second.
Scale == 1000

\* random.uniform(0, 0.1), in thousandths.
Uniform == {10 * k : k \in 0..10}

\* Mutant: the exponent is attempt, not attempt - 1.
get_retry_delay_late(error, attempt, base_delay, u) ==
    IF error.cls = "RateLimitError" /\ Truthy(error.retry_after)
    THEN Scale * error.retry_after.n
    ELSE LET delay == base_delay * (2 ^ attempt)
         IN  Scale * delay + u * delay

\* u is the number random.uniform returns; base_delay is in seconds.
get_retry_delay(error, attempt, base_delay, u) ==
    IF error.cls = "RateLimitError" /\ Truthy(error.retry_after)
    THEN Scale * error.retry_after.n
    ELSE LET delay == base_delay * (2 ^ (attempt - 1))
             jitter == u * delay
         IN  Scale * delay + jitter

STATUS_CODE_TO_EXCEPTION ==
    [st \in {400, 401, 403, 404, 422, 429, 500, 502, 503, 504} |->
        CASE st \in {400, 422} -> "ValidationError"
          [] st = 401 -> "AuthenticationError"
          [] st = 403 -> "TenantError"
          [] st = 404 -> "ModelError"
          [] st = 429 -> "RateLimitError"
          [] st = 504 -> "ogem.TimeoutError"
          [] OTHER -> "ProviderError"]

\* The keyword parameters of each class's __init__.
init_params(cls) ==
    CASE cls = "APIError" ->
            {"message", "status_code", "error_type", "error_code", "details"}
      [] cls = "RateLimitError" -> {"message", "retry_after", "limit_type"}
      [] cls = "TenantError" -> {"message", "tenant_id"}
      [] cls = "ValidationError" -> {"message", "field_errors"}
      [] cls = "ModelError" -> {"message", "model_id"}
      [] cls = "ProviderError" -> {"message", "provider"}
      [] OTHER -> {"message"}

\* exception_class(message=..., status_code=..., error_type=...,
\* error_code=..., details=...): a keyword __init__ does not declare is a
\* TypeError.
status_exception(cls, message, status_code, error_type, error_code, details) ==
    IF ~({"message", "status_code", "error_type", "error_code", "details"}
            \subseteq init_params(cls))
    THEN Raise(PyError("TypeError", <<"unexpected keyword argument">>))
    ELSE Return(APIError(message, Num(status_code), error_type, error_code,
                         details))

\* `keyword in x.lower()`: x must be a str.
keyword_in(keyword, x) == Contains(lower(x.s), keyword)

create_exception_from_response(status_code, error_data) ==
    LET message == Get(error_data, "message", Str(<<"API request failed">>))
        error_type == Get(error_data, "type", Str(<<"unknown_error">>))
        error_code == Get(error_data, "code", None)
        exception_class ==
            IF status_code \in DOMAIN STATUS_CODE_TO_EXCEPTION
            THEN STATUS_CODE_TO_EXCEPTION[status_code] ELSE "APIError"
    IN  IF error_type.t /= "str" THEN Raise(AttributeError)
        ELSE IF keyword_in(<<"authentication">>, error_type)
        THEN Return(AuthenticationError(message))
        ELSE IF keyword_in(<<"rate", "_", "limit">>, error_type)
        THEN Return(RateLimitError(message, Get(error_data, "retry_after", None),
                                   Get(error_data, "limit_type", None)))
        ELSE IF message.t /= "str" THEN Raise(AttributeError)
        ELSE IF keyword_in(<<"rate", " ", "limit">>, message)
        THEN Return(RateLimitError(message, Get(error_data, "retry_after", None),
                                   Get(error_data, "limit_type", None)))
        ELSE IF keyword_in(<<"tenant">>, error_type)
        THEN Return(TenantError(message, Get(error_data, "tenant_id", None)))
        ELSE IF keyword_in(<<"validation">>, error_type)
        THEN Return(ValidationError(message,
                                    Get(error_data, "field_errors", None)))
        ELSE IF keyword_in(<<"model">>, error_type)
        THEN Return(ModelError(message, Get(error_data, "model_id", None)))
        ELSE IF keyword_in(<<"provider">>, error_type)
        THEN Return(ProviderError(message, Get(error_data, "provider", None)))
        ELSE status_exception(exception_class, message, status_code, error_type,
                              error_code, error_data)

\* Errors handed to the retry utilities: every class of the SDK, API
\* errors on both sides of status 500, and exceptions from elsewhere.
RetryAfters == {None, Num(0), Num(1), Num(30)}

Errors ==
    {RateLimitError(Str(<<"slow down">>), ra, None) : ra \in RetryAfters}
        \cup {APIError(Str(<<"boom">>), st, None, None, None) :
                st \in {None, Num(400), Num(429), Num(499), Num(500), Num(503)}}
        \cup {AuthenticationError(Str(<<"Authentication failed">>)),
              TenantError(Str(<<"no tenant">>), None),
              ValidationError(Str(<<"bad field">>), None),
              ModelError(Str(<<"no model">>), None),
              ProviderError(Str(<<"provider down">>), None),
              TimeoutError(<<"Request timed out">>),
              ConnectionError(<<"Failed to connect to Ogem server">>),
              OgemError(<<"boom">>, ""),
              StreamError(<<"boom">>),
              PyError("TimeoutError", <<"timed out">>),
              PyError("ConnectionError", <<"refused">>),
              PyError("ValueError", <<"boom">>)}

BaseDelays == {1, 2, 5}

\* A key a mapping does not have.
Missing == [t |-> "missing", s |-> <<>>, n |-> 0, d |-> <<>>]

\* The mapping with the entries of f that are not Missing.
Dict(f) == Obj([k \in {x \in DOMAIN f : f[x] /= Missing} |-> f[k]])

TypeArgs ==
    {Missing, None,
     Str(<<"invalid", "_", "request">>),
     Str(<<"authentication", "_", "error">>),
     Str(<<"AUTHENTICATION", "_", "tenant">>),
     Str(<<"rate", "_", "limit", "_", "exceeded">>),
     Str(<<"Rate", " ", "Limit">>),
     Str(<<"tenant", "_", "validation">>),
     Str(<<"validation", "_", "model">>),
     Str(<<"model", "_", "provider">>),
     Str(<<"provider", "_", "error">>)}

MessageArgs ==
    {Missing, None, Str(<<"boom">>),
     Str(<<"Rate", " ", "limit", " ", "exceeded">>)}

CodeArgs == {Missing, Str(<<"E42">>)}

ErrorData ==
    {Dict([type |-> ty, message |-> m, code |-> c, retry_after |-> ra]) :
        ty \in TypeArgs, m \in MessageArgs, c \in CodeArgs,
        ra \in {Missing, Num(30)}}

ResponseStatuses ==
    {200, 400, 401, 403, 404, 418, 422, 429, 500, 502, 503, 504, 599}

ExceptionsArgs ==
    {[fn |-> "is_retryable_error", error |-> e] : e \in Errors}
        \cup {[fn |-> "get_retry_delay", error |-> e, attempt |-> a,
               base_delay |-> b, u |-> u] :
                e \in Errors, a \in 1..MaxAttempt, b \in BaseDelays, u \in Uniform}
        \cup {[fn |-> "create_exception_from_response", status_code |-> st,
               error_data |-> d] : st \in ResponseStatuses, d \in ErrorData}

InitExceptions ==
    /\ args \in ExceptionsArgs
    /\ ret = NoResult
    /\ tenant_id = None
    /\ ClientIdle
    /\ ConfigIdle
    /\ BuilderIdle
    /\ ScraperIdle
    /\ GeneratorIdle
    /\ AsyncIdle

\* The function returns or raises.
Returned(result) ==
    /\ ret = NoResult
    /\ ret' = result
    /\ UNCHANGED <<args, client_vars, config_vars, builder_vars, scraper_vars,
                   generator_vars, async_vars>>

Call_is_retryable_error ==
    /\ args.fn = "is_retryable_error"
    /\ Returned(Return(Bool(is_retryable_error(args.error))))

Call_get_retry_delay ==
    /\ args.fn = "get_retry_delay"
    /\ Returned(Return(Num(get_retry_delay(args.error, args.attempt,
                                           args.base_delay, args.u))))

Call_create_exception_from_response ==
    /\ args.fn = "create_exception_from_response"
    /\ Returned(create_exception_from_response(args.status_code,
                                               args.error_data))

NextExceptions ==
    \/ Call_is_retryable_error
    \/ Call_get_retry_delay
    \/ Call_create_exception_from_response

SpecExceptions == InitExceptions /\ [][NextExceptions]_vars

-----------------------------------------------------------------------------
(* Properties of the retry utilities and of the classification.            *)

Called(fn) == args.fn = fn /\ ret /= NoResult

SDKTransportClasses == {"ogem.TimeoutError", "ogem.ConnectionError"}

\* C11: is_retryable_error(e) is true if and only if e is a RateLimitError,
\* or an APIError (of any subclass) whose status code is at least 500, or
\* the SDK's TimeoutError or ConnectionError; it is false for every other
\* error, API errors with a lower status or with none included.
C11_RetryableIff ==
    Called("is_retryable_error") =>
        LET e == args.error
            expected ==
                \/ e.cls = "RateLimitError"
                \/ /\ e.cls \in APIErrorClasses
                   /\ e.status_code.t = "int"
                   /\ e.status_code.n >= 500
                \/ e.cls \in SDKTransportClasses
        IN  ret = Return(Bool(expected))

C11_Witness ==
    /\ Called("is_retryable_error")
    /\ args.error.cls = "APIError"
    /\ args.error.status_code = Num(503)
    /\ ret = Return(Bool(TRUE))

CarriesRetryAfter(e) == e.cls = "RateLimitError" /\ e.retry_after /= None

\* C12: for a RateLimitError that carries a retry_after value, 0 included,
\* get_retry_delay returns exactly that value whatever attempt and
\* base_delay are.
C12_RetryAfterVerbatim ==
    (Called("get_retry_delay") /\ CarriesRetryAfter(args.error)) =>
        ret = Return(Num(Scale * args.error.retry_after.n))

\* C13: for an error that carries no retry_after and an attempt >= 1, the
\* delay d returned satisfies
\* base_delay * 2^(attempt-1) <= d <= 1.1 * base_delay * 2^(attempt-1).
C13_BackoffBounds ==
    (Called("get_retry_delay") /\ ~CarriesRetryAfter(args.error)
        /\ args.attempt >= 1) =>
        LET backoff == args.base_delay * (2 ^ (args.attempt - 1))
            d == ret.value.n
        IN  /\ ret.kind = "return"
            /\ Scale * backoff <= d
            /\ 10 * d <= 11 * Scale * backoff

C13_Witness ==
    /\ Called("get_retry_delay")
    /\ args.error.cls = "APIError"
    /\ args.attempt = 3
    /\ args.base_delay = 2
    /\ args.u = 100
    /\ ret = Return(Num(8800))

\* The error type the classification reads, and the class its first
\* keyword names ("" if it holds none), the keywords taken in the order
\* authentication, rate_limit / rate limit, tenant, validation, model,
\* provider.
TypeOf(error_data) == Get(error_data, "type", Str(<<"unknown_error">>))

KeywordClass(error_type) ==
    CASE keyword_in(<<"authentication">>, error_type) -> "AuthenticationError"
      [] keyword_in(<<"rate", "_", "limit">>, error_type)
            \/ keyword_in(<<"rate", " ", "limit">>, error_type) -> "RateLimitError"
      [] keyword_in(<<"tenant">>, error_type) -> "TenantError"
      [] keyword_in(<<"validation">>, error_type) -> "ValidationError"
      [] keyword_in(<<"model">>, error_type) -> "ModelError"
      [] keyword_in(<<"provider">>, error_type) -> "ProviderError"
      [] OTHER -> ""

\* C14: whatever the status code, an error type that holds a keyword yields
\* the class of the first keyword it holds, in the order authentication,
\* rate_limit / rate limit, tenant, validation, model, provider.
C14_KeywordBeforeStatus ==
    (Called("create_exception_from_response")
        /\ TypeOf(args.error_data).t = "str"
        /\ KeywordClass(TypeOf(args.error_data)) /= "") =>
        /\ ret.kind = "return"
        /\ ret.value.cls = KeywordClass(TypeOf(args.error_data))

\* C15: when the error type holds no keyword, the classification returns an
\* exception for every status code: one of the class the status table names
\* for a status of the table, and otherwise an APIError with the status code,
\* the error type, the error code and the details.
C15_StatusTableNeverRaises ==
    LET d == args.error_data
        message == Get(d, "message", Str(<<"API request failed">>))
    IN  (Called("create_exception_from_response")
            /\ TypeOf(d).t = "str"
            /\ KeywordClass(TypeOf(d)) = ""
            /\ message.t = "str"
            /\ ~keyword_in(<<"rate", " ", "limit">>, message)) =>
            /\ ret.kind = "return"
            /\ IF args.status_code \in DOMAIN STATUS_CODE_TO_EXCEPTION
               THEN ret.value.cls = STATUS_CODE_TO_EXCEPTION[args.status_code]
               ELSE /\ ret.value.cls = "APIError"
                    /\ ret.value.status_code = Num(args.status_code)
                    /\ ret.value.error_type = TypeOf(d)
                    /\ ret.value.error_code = Get(d, "code", None)
                    /\ ret.value.details = (IF Truthy(d) THEN d ELSE Obj(<<>>))

-----------------------------------------------------------------------------
(* types.py: the request builders ChatCompletionRequest and                *)
(* EmbeddingRequest.  A mapping is a function from keys to values.         *)

MaxCalls == 2
MaxBuilds == 2

\* __init__: the builder's self.data.
ChatCompletionRequest(model, messages) ==
    [model |-> model, messages |-> messages]

EmbeddingRequest(model, input_data) == [model |-> model, input |-> input_data]

\* d[key] = value on a dict.
setitem(d, key, value) ==
    [k \in DOMAIN d \cup {key} |-> IF k = key THEN value ELSE d[k]]

\* ChatCompletionRequest.stop: `value if isinstance(value, list) else [value]`.
stop_value(value) == IF value.t = "list" THEN value ELSE Lst(<<value>>)

\* The setters that store their argument as it is, with arguments callers
\* pass; stream() and logprobs() default to True.
ChatSetters ==
    {<<"max_tokens", Num(10)>>, <<"max_tokens", Num(20)>>,
     <<"temperature", Num(0)>>, <<"temperature", Num(1)>>,
     <<"top_p", Num(1)>>,
     <<"stream", Bool(TRUE)>>, <<"stream", Bool(FALSE)>>,
     <<"presence_penalty", Num(0)>>,
     <<"frequency_penalty", Num(0)>>,
     <<"user", Str(<<"u1">>)>>,
     <<"tools", Lst(<<Obj([type |-> Str(<<"function">>)])>>)>>,
     <<"tool_choice", Str(<<"auto">>)>>,
     <<"response_format", Obj([type |-> Str(<<"json_object">>)])>>,
     <<"seed", Num(7)>>,
     <<"logprobs", Bool(TRUE)>>,
     <<"top_logprobs", Num(2)>>}

EmbeddingSetters ==
    {<<"encoding_format", Str(<<"float">>)>>,
     <<"encoding_format", Str(<<"base64">>)>>,
     <<"dimensions", Num(256)>>,
     <<"user", Str(<<"u1">>)>>}

StopArgs == {Str(<<"END">>), Lst(<<Str(<<"END">>)>>), Lst(<<>>)}

Setters(cls) ==
    IF cls = "ChatCompletionRequest" THEN ChatSetters ELSE EmbeddingSetters

\* A mapping build() returned: either a dict of its own with the entries
\* d, or the builder's self.data itself.
Built(is_self_data, d, after) ==
    [is_self_data |-> is_self_data, d |-> d, after |-> after]

\* Mutant: build() returns self.data, not a copy of it.
build_no_copy(d, after) == Built(TRUE, d, after)

\* build(): self.data.copy(); after is the number of setter calls made
\* before it.
build(d, after) == Built(FALSE, d, after)

\* The entries of a built mapping, as a reader of it sees them now.
Mapping(b) == IF b.is_self_data THEN builder_data ELSE b.d

InitBuilder ==
    /\ \/ /\ builder = "ChatCompletionRequest"
          /\ \E ms \in MessagesArgs :
                builder_data = ChatCompletionRequest(Str(<<"m">>), ms)
       \/ /\ builder = "EmbeddingRequest"
          /\ \E i \in InputArgs :
                builder_data = EmbeddingRequest(Str(<<"m">>), i)
    /\ calls = <<>>
    /\ built = <<>>
    /\ returned = ""
    /\ tenant_id = None
    /\ ClientIdle
    /\ ConfigIdle
    /\ ExceptionsIdle
    /\ ScraperIdle
    /\ GeneratorIdle
    /\ AsyncIdle

\* A setter stores the value under its own name and returns self.
Assigned(name, value, stored) ==
    /\ Len(calls) < MaxCalls
    /\ builder_data' = setitem(builder_data, name, stored)
    /\ calls' = Append(calls, [name |-> name, value |-> value])
    /\ returned' = "self"
    /\ UNCHANGED <<builder, built, client_vars, config_vars, exceptions_vars,
                   scraper_vars,
                   generator_vars, async_vars>>

\* max_tokens, temperature, ..., top_logprobs; encoding_format,
\* dimensions, user.
Builder_set(name, value) ==
    /\ <<name, value>> \in Setters(builder)
    /\ Assigned(name, value, value)

Builder_stop(value) ==
    /\ builder = "ChatCompletionRequest"
    /\ Assigned("stop", value, stop_value(value))

Builder_build ==
    /\ Len(built) < MaxBuilds
    /\ built' = Append(built, build(builder_data, Len(calls)))
    /\ returned' = "dict"
    /\ UNCHANGED <<builder, builder_data, calls, client_vars, config_vars,
                   exceptions_vars, scraper_vars,
                   generator_vars, async_vars>>

NextBuilder ==
    \/ \E c \in ChatSetters \cup EmbeddingSetters : Builder_set(c[1], c[2])
    \/ \E v \in StopArgs : Builder_stop(v)
    \/ Builder_build

SpecBuilder == InitBuilder /\ [][NextBuilder]_vars

\* The constructor's mapping extended with the first n setter calls, each
\* field at the value it was last called with.
RECURSIVE LastSet(_, _)
LastSet(base, n) ==
    IF n = 0 THEN base
    ELSE setitem(LastSet(base, n - 1), calls[n].name, calls[n].value)

\* The same, a stop value that is no list being held as a one-element list.
RECURSIVE LastStored(_, _)
LastStored(base, n) ==
    IF n = 0 THEN base
    ELSE setitem(LastStored(base, n - 1), calls[n].name,
                 IF calls[n].name = "stop" THEN stop_value(calls[n].value)
                 ELSE calls[n].value)

\* What the constructor stored: neither setter touches these keys.
Constructed ==
    [k \in DOMAIN builder_data \cap {"model", "messages", "input"} |->
        builder_data[k]]

SetterReturnsSelf == (calls /= <<>> /\ returned /= "dict") => returned = "self"

\* C16 as stated: every mapping build() returned equals, at any later time,
\* the constructor's mapping extended with exactly the fields set before
\* that build() at the values they were last set to; each setter returns
\* the builder.
C16_BuildLastSetValues ==
    /\ \A i \in DOMAIN built : Mapping(built[i]) = LastSet(Constructed, built[i].after)
    /\ SetterReturnsSelf

\* C16 amended: the same, except that stop(v) with v not a list stores the
\* one-element list [v].
C16_BuildStoredValues ==
    /\ \A i \in DOMAIN built :
          Mapping(built[i]) = LastStored(Constructed, built[i].after)
    /\ SetterReturnsSelf

\* A field is set twice, build() is called, and a setter is called after.
C16_Witness ==
    /\ Len(calls) = 2
    /\ calls[1].name = "max_tokens"
    /\ calls[2].name = "max_tokens"
    /\ calls[1].value /= calls[2].value
    /\ \E i \in DOMAIN built :
          /\ built[i].after = 1
          /\ Mapping(built[i])["max_tokens"] = calls[1].value
    /\ \E i \in DOMAIN built : built[i].after = 2

-----------------------------------------------------------------------------
(* client.py: the headers Client and AsyncClient build for a request, and  *)
(* the two configuration setters.                                          *)

\* Mutant: the tenant header is added whenever tenant_id is not None.
_get_headers_not_none(kind, api_key, tenant) ==
    LET headers ==
            [h \in {"Authorization", "Content-Type", "User-Agent"} |->
                CASE h = "Authorization" -> Str(<<"Bearer", " ">> \o Text(api_key))
                  [] h = "Content-Type" -> Str(<<"application/json">>)
                  [] OTHER -> Str(<<"ogem-python", "/", "ogem">>)]
    IN  IF tenant /= None THEN setitem(headers, "X-Tenant-ID", tenant)
        ELSE headers

\* Client._get_headers and AsyncClient._get_headers.
_get_headers(kind, api_key, tenant) ==
    LET headers ==
            [h \in {"Authorization", "Content-Type", "User-Agent"} |->
                CASE h = "Authorization" -> Str(<<"Bearer", " ">> \o Text(api_key))
                  [] h = "Content-Type" -> Str(<<"application/json">>)
                  [] OTHER ->
                        Str(IF kind = "AsyncClient"
                            THEN <<"ogem-python-async", "/", "ogem">>
                            ELSE <<"ogem-python", "/", "ogem">>)]
    IN  IF Truthy(tenant) THEN setitem(headers, "X-Tenant-ID", tenant)
        ELSE headers

\* The headers _make_request hands to the transport.
request_headers(kind, api_key, tenant, stream) ==
    LET headers == _get_headers(kind, api_key, tenant)
    IN  IF stream
        THEN setitem(setitem(headers, "Accept", Str(<<"text/event-stream">>)),
                     "Cache-Control", Str(<<"no-cache">>))
        ELSE headers

\* tenant_id of the request is self.tenant_id as _get_headers reads it.
Request(stream, headers, tenant) ==
    [stream |-> stream, headers |-> headers, tenant_id |-> tenant]

TenantIds == TenantArgs \cup {Str(<<"t2">>)}

ApiKeys == {Str(<<"k1">>), Str(<<"k2">>)}

InitHeaders ==
    /\ \E kind \in {"Client", "AsyncClient"}, key \in ApiKeys, debug \in BOOLEAN :
          config = Config(kind, Str(<<"http://host">>), key, debug)
    /\ request = NoRequest
    /\ max_retries = 3
    /\ tenant_id \in TenantIds
    /\ ClientIdle
    /\ ExceptionsIdle
    /\ BuilderIdle
    /\ ScraperIdle
    /\ GeneratorIdle
    /\ AsyncIdle

\* Client._make_request up to the call of the transport.
Client_make_request(stream) ==
    /\ config.kind = "Client"
    /\ request' = Request(stream,
                          request_headers(config.kind, config.api_key,
                                          tenant_id, stream),
                          tenant_id)
    /\ UNCHANGED <<config, max_retries, client_vars, exceptions_vars,
                   builder_vars, scraper_vars, generator_vars, async_vars>>

\* AsyncClient._make_request up to the call of the transport.
AsyncClient_make_request ==
    /\ config.kind = "AsyncClient"
    /\ request' = Request(FALSE,
                          request_headers(config.kind, config.api_key,
                                          tenant_id, FALSE),
                          tenant_id)
    /\ UNCHANGED <<config, max_retries, client_vars, exceptions_vars,
                   builder_vars, scraper_vars, generator_vars, async_vars>>

\* Client.set_debug and AsyncClient.set_debug.
set_debug(debug) ==
    /\ config' = [config EXCEPT !.debug = debug]
    /\ UNCHANGED <<request, max_retries, client_vars, exceptions_vars,
                   builder_vars, scraper_vars, generator_vars, async_vars>>

NextHeaders ==
    \/ \E stream \in BOOLEAN : Client_make_request(stream)
    \/ AsyncClient_make_request
    \/ \E t \in TenantIds : set_tenant_id(t)
    \/ \E debug \in BOOLEAN : set_debug(debug)

SpecHeaders == InitHeaders /\ [][NextHeaders]_vars

\* The credential and content-type headers of the last request.
CarriesCredential ==
    /\ request.headers["Authorization"] =
            Str(<<"Bearer", " ">> \o config.api_key.s)
    /\ request.headers["Content-Type"] = Str(<<"application/json">>)

\* The last request carries the tenant header with the client's tenant_id
\* of the time of the call.
CarriesTenant ==
    /\ "X-Tenant-ID" \in DOMAIN request.headers
    /\ request.headers["X-Tenant-ID"] = request.tenant_id

\* A request built in this step reads the tenant_id of the state it is
\* built in, hence the one the last set_tenant_id stored.
ReadsCurrentTenant == request' /= request => request'.tenant_id = tenant_id

\* set_tenant_id and set_debug change one field each.
SettersFrame ==
    /\ tenant_id' /= tenant_id => UNCHANGED <<config, request>>
    /\ config' /= config =>
          /\ UNCHANGED <<tenant_id, request>>
          /\ config' = [config EXCEPT !.debug = config'.debug]

\* C17 as stated: every request carries the bearer credential and the
\* content type, and carries X-Tenant-ID, equal to the client's tenant_id,
\* if and only if a tenant_id is set (is not None) when the request is
\* built; a request built after set_tenant_id(t) reads t; the two setters
\* change no other configuration field.
C17_TenantHeaderIffSet ==
    /\ [](request /= NoRequest =>
            /\ CarriesCredential
            /\ (request.tenant_id /= None <=> CarriesTenant))
    /\ [][ReadsCurrentTenant /\ SettersFrame]_vars

\* C17 amended: the tenant header is carried if and only if tenant_id is
\* a non-empty value when the request is built; None and "" both omit it.
C17_TenantHeaderIffTruthy ==
    /\ [](request /= NoRequest =>
            /\ CarriesCredential
            /\ (Truthy(request.tenant_id) <=> CarriesTenant))
    /\ [][ReadsCurrentTenant /\ SettersFrame]_vars

\* An AsyncClient with debug on built a request after the tenant was set
\* to t2, and the tenant has been cleared since.
C17_Witness ==
    /\ config.kind = "AsyncClient"
    /\ config.debug
    /\ request.tenant_id = Str(<<"t2">>)
    /\ CarriesTenant
    /\ tenant_id = Str(<<>>)

-----------------------------------------------------------------------------
(* Transport failures.                                                     *)

\* The operation sent its request and the transport failed.
TransportFailed == pc = "done" /\ sent = 1 /\ response = NoResponse

\* The transport failure the caller's exception was built from.
Failure ==
    CHOOSE tr \in Transports \ {"ok"} : TransportError(tr).cls = outcome.exc.cause

WrappedTransportError ==
    /\ outcome.kind = "raise"
    /\ outcome.exc.cls = "OgemError"
    /\ \E tr \in Transports \ {"ok"} : TransportError(tr).cls = outcome.exc.cause

\* C18 as stated: every transport failure reaches the caller as an
\* OgemError whose message carries the message of the underlying cause,
\* never as the transport library's exception.
C18_CarriesCauseMessage ==
    TransportFailed =>
        /\ WrappedTransportError
        /\ Contains(outcome.exc.message, TransportError(Failure).message)

\* C18 amended: the OgemError says "Request timed out" for a timeout,
\* "Failed to connect to Ogem server" for a connection failure, and
\* "Request failed: " followed by the cause's message for any other
\* failure; a streaming call says "Stream error: " followed by the cause's
\* message.
C18_WrappedAsOgemError ==
    TransportFailed =>
        /\ WrappedTransportError
        /\ outcome.exc.message =
              IF op.stream
              THEN <<"Stream error: ">> \o TransportError(Failure).message
              ELSE CASE Failure = "timeout" -> <<"Request timed out">>
                     [] Failure = "connect" ->
                            <<"Failed to connect to Ogem server">>
                     [] OTHER -> <<"Request failed: ">>
                                    \o TransportError(Failure).message

\* A non-streaming call whose connection was refused.
C18_Witness ==
    /\ TransportFailed
    /\ ~op.stream
    /\ outcome.exc.cause = "httpx.ConnectError"
    /\ outcome.exc.message = <<"Failed to connect to Ogem server">>

-----------------------------------------------------------------------------
\* scripts/scrape_pricing.py: the pricing scrapers and their aggregator.

\* Longest providers list a caller passes to scrape_all.
MaxProviders == 2

\* A price in dollars per million tokens, in ten-thousandths of a dollar:
\* Dollars(0, 375) is 0.0375.
Dollars(whole, fraction) == whole * 10000 + fraction

\* An entry of a known_models table: {"input": ..., "output": ...}.
Price(input, output) == [input |-> input, output |-> output]

\* An entry that also has "reasoning".
ReasoningPrice(input, output, reasoning) ==
    [input |-> input, output |-> output, reasoning |-> reasoning]

\* The per-model dict the scrapers build from a known_models entry; the
\* reasoning price is added `if "reasoning" in prices`.
ModelData(prices, source) ==
    IF "reasoning" \in DOMAIN prices
    THEN [input_price_per_1m |-> prices.input,
          output_price_per_1m |-> prices.output,
          source |-> source,
          reasoning_price_per_1m |-> prices.reasoning]
    ELSE [input_price_per_1m |-> prices.input,
          output_price_per_1m |-> prices.output,
          source |-> source]

\* The models dict built by the loop over known_models.items().
KnownModels(known_models, source) ==
    [model \in DOMAIN known_models |-> ModelData(known_models[model], source)]

\* The dict a successful scrape() returns; datetime.now() is "now".
PricingResult(provider, url, models) ==
    [provider |-> provider, url |-> url, scraped_at |-> "now",
     models |-> models]

\* PricingScraper.get_page: the parsed page, None when requests raises a
\* RequestException; any other exception (the parser rejecting the markup)
\* propagates.
Fetches == {"page", "request_exception", "parser_error"}

get_page(fetch) ==
    CASE fetch = "page" -> Return(Str(<<"soup">>))
      [] fetch = "request_exception" -> Return(None)
      [] fetch = "parser_error" ->
            Raise(PyError("bs4.ParserRejectedMarkup", <<"markup rejected">>))

\* What a fetched OpenAI pricing page holds: rows the parser recognises as
\* model prices, or none.
Pages == {"no_prices", "prices"}

\* OpenAIPricingScraper._parse_pricing_content: one entry per recognised row,
\* {} when there is none.
_parse_pricing_content(content) ==
    IF content = "prices"
    THEN "gpt-4o" :> [input_price_per_1m |-> Dollars(3, 0),
                      output_price_per_1m |-> Dollars(12, 0),
                      source |-> "openai_scraped"]
    ELSE <<>>

\* Outcomes of the browser session: the page answers 403, page.goto times out,
\* or the content is read.
BrowserOutcomes == {"forbidden", "timeout"} \cup Pages

_scrape_with_playwright(available, browser) ==
    IF ~available
    THEN Raise(PyError("ImportError", <<"Playwright not available">>))
    ELSE IF browser = "forbidden"
    THEN Raise(PyError("Exception", <<"Still got 403 with Playwright">>))
    ELSE IF browser = "timeout"
    THEN Raise(PyError("playwright.TimeoutError", <<"Timeout 60000ms exceeded">>))
    ELSE Return(_parse_pricing_content(browser))

\* Outcomes of session.get with the enhanced headers.
HttpOutcomes == {"request_exception"} \cup Pages

_scrape_with_enhanced_headers(http) ==
    IF http = "request_exception"
    THEN Raise(PyError("Exception",
                       <<"Enhanced headers failed: ", "403 Client Error">>))
    ELSE Return(_parse_pricing_content(http))

OpenAI_known_models ==
    "gpt-4o" :> Price(Dollars(2, 5000), Dollars(10, 0))
    @@ "gpt-4o-mini" :> Price(Dollars(0, 1500), Dollars(0, 6000))
    @@ "gpt-4-turbo" :> Price(Dollars(10, 0), Dollars(30, 0))
    @@ "gpt-4" :> Price(Dollars(30, 0), Dollars(60, 0))
    @@ "gpt-3.5-turbo" :> Price(Dollars(0, 5000), Dollars(1, 5000))
    @@ "o1-preview" :> Price(Dollars(15, 0), Dollars(60, 0))
    @@ "o1-mini" :> Price(Dollars(3, 0), Dollars(12, 0))

_get_fallback_pricing == KnownModels(OpenAI_known_models, "openai_fallback")

OpenAI_BASE_URL == "https://openai.com/api/pricing/"

\* The strategies of OpenAIPricingScraper.scrape, in the order of its list.
methods_fallback_first ==
    <<"_get_fallback_pricing", "_scrape_with_playwright",
      "_scrape_with_enhanced_headers">>

methods ==
    <<"_scrape_with_playwright", "_scrape_with_enhanced_headers",
      "_get_fallback_pricing">>

\* method(): what the named strategy returns or raises.
Method(name, available, browser, http) ==
    CASE name = "_scrape_with_playwright" ->
            _scrape_with_playwright(available, browser)
      [] name = "_scrape_with_enhanced_headers" ->
            _scrape_with_enhanced_headers(http)
      [] name = "_get_fallback_pricing" -> Return(_get_fallback_pricing)

\* One call of a strategy and what came of it.
Invocation(name, result) == [method |-> name, result |-> result]

\* The loop of OpenAIPricingScraper.scrape from methods[i] on, and the code
\* after the loop: the strategies called and the dict returned.
RECURSIVE scrape_loop(_, _, _, _, _, _)
scrape_loop(i, called, last_error, available, browser, http) ==
    IF i > Len(methods)
    THEN [methods |-> Append(called,
                             Invocation("_get_fallback_pricing",
                                        Return(_get_fallback_pricing))),
          result |->
            Return([provider |-> "openai", url |-> OpenAI_BASE_URL,
                    scraped_at |-> "now", models |-> _get_fallback_pricing,
                    note |-> <<"All scraping methods failed, using fallback data. Last error: ">>
                             \o (IF last_error = NoExc THEN <<"None">>
                                 ELSE last_error.message)])]
    ELSE LET models == Method(methods[i], available, browser, http)
             now == Append(called, Invocation(methods[i], models))
         IN  IF models.kind = "raise"
             THEN scrape_loop(i + 1, now, models.exc, available, browser, http)
             ELSE IF DOMAIN models.value /= {}
             THEN [methods |-> now,
                   result |-> Return(PricingResult("openai", OpenAI_BASE_URL,
                                                   models.value))]
             ELSE scrape_loop(i + 1, now, last_error, available, browser, http)

OpenAIPricingScraper_scrape(available, browser, http) ==
    scrape_loop(1, <<>>, NoExc, available, browser, http)

\* The scrape() of the three scrapers that fetch their page and then fill in
\* their known_models table: an error dict `if not soup`.
KnownScrape(soup, failed, provider, url, known_models, source) ==
    IF soup.kind = "raise" THEN soup
    ELSE IF soup.value = None THEN Return([error |-> failed])
    ELSE Return(PricingResult(provider, url, KnownModels(known_models, source)))

Anthropic_known_models ==
    "claude-3-5-sonnet" :> Price(Dollars(3, 0), Dollars(15, 0))
    @@ "claude-3-5-haiku" :> Price(Dollars(0, 8000), Dollars(4, 0))
    @@ "claude-3-opus" :> Price(Dollars(15, 0), Dollars(75, 0))
    @@ "claude-3-sonnet" :> Price(Dollars(3, 0), Dollars(15, 0))
    @@ "claude-3-haiku" :> Price(Dollars(0, 2500), Dollars(1, 2500))

AnthropicPricingScraper_scrape(fetch) ==
    KnownScrape(get_page(fetch), "Failed to fetch Anthropic pricing page",
                "anthropic", "https://www.anthropic.com/pricing",
                Anthropic_known_models, "anthropic_api")

Google_known_models ==
    "gemini-2.5-pro" :>
        ReasoningPrice(Dollars(1, 2500), Dollars(5, 0), Dollars(10, 0))
    @@ "gemini-2.5-flash" :>
        ReasoningPrice(Dollars(0, 750), Dollars(0, 3000), Dollars(1, 5000))
    @@ "gemini-2.5-flash-8b" :>
        ReasoningPrice(Dollars(0, 375), Dollars(0, 1500), Dollars(0, 7500))
    @@ "gemini-1.5-pro" :> Price(Dollars(1, 2500), Dollars(5, 0))
    @@ "gemini-1.5-flash" :> Price(Dollars(0, 750), Dollars(0, 3000))

GoogleCloudPricingScraper_scrape(fetch) ==
    KnownScrape(get_page(fetch), "Failed to fetch Google Cloud pricing page",
                "google_cloud", "https://cloud.google.com/vertex-ai/generative-ai/pricing",
                Google_known_models, "vertex_ai")

Azure_known_models ==
    "azure-gpt-4o" :> Price(Dollars(5, 0), Dollars(15, 0))
    @@ "azure-gpt-4o-mini" :> Price(Dollars(0, 1650), Dollars(0, 6600))
    @@ "azure-gpt-4-turbo" :> Price(Dollars(10, 0), Dollars(30, 0))
    @@ "azure-gpt-4" :> Price(Dollars(30, 0), Dollars(60, 0))
    @@ "azure-gpt-35-turbo" :> Price(Dollars(0, 5000), Dollars(1, 5000))

AzureOpenAIPricingScraper_scrape(fetch) ==
    KnownScrape(get_page(fetch), "Failed to fetch Azure OpenAI pricing page",
                "azure",
                "https://azure.microsoft.com/en-us/pricing/details/cognitive-services/openai-service/",
                Azure_known_models, "azure_openai")

\* PricingAggregator.__init__: the keys of self.scrapers, in insertion order.
scrapers == <<"openai", "anthropic", "google", "azure">>

Known(provider) == \E i \in 1..Len(scrapers) : scrapers[i] = provider

\* Provider names callers pass; "mistral" has no scraper.
ProviderNames == {"openai", "anthropic", "google", "azure", "mistral"}

\* The providers argument: None or a list of names.
ProvidersArgs ==
    {None} \cup {Lst(l) : l \in UNION {[1..n -> ProviderNames] :
                                         n \in 0..MaxProviders}}

\* A PricingAggregator has been built and scrape_all has not been called.
InitScrape ==
    /\ playwright_available \in BOOLEAN
    /\ providers = <<>>
    /\ cursor = 0
    /\ results = <<>>
    /\ invoked = <<>>
    /\ scraped = NoScrape
    /\ formatted = <<>>
    /\ tenant_id = None
    /\ ClientIdle
    /\ ConfigIdle
    /\ ExceptionsIdle
    /\ BuilderIdle
    /\ GeneratorIdle
    /\ AsyncIdle

\* scrape_all up to its loop.
scrape_all(providers_arg) ==
    /\ cursor = 0
    /\ providers' = IF providers_arg = None THEN scrapers ELSE providers_arg.d
    /\ cursor' = 1
    /\ results' = <<>>
    /\ UNCHANGED <<playwright_available, invoked, scraped, formatted, client_vars,
                   config_vars, exceptions_vars, builder_vars, generator_vars,
                   async_vars>>

\* The loop of scrape_all is at provider.
Scraping(provider) ==
    /\ cursor \in 1..Len(providers)
    /\ providers[cursor] = provider

\* An iteration that ends the batch when scrape() raises.
Iteration_abort(provider, called, data) ==
    /\ Scraping(provider)
    /\ results' = setitem(results, provider,
                          IF data.kind = "raise"
                          THEN [error |-> data.exc.message]
                          ELSE data.value)
    /\ invoked' = Append(invoked, provider)
    /\ scraped' = [provider |-> provider, methods |-> called, result |-> data]
    /\ cursor' = IF data.kind = "raise" THEN Len(providers) + 1 ELSE cursor + 1
    /\ UNCHANGED <<playwright_available, providers, formatted, client_vars,
                   config_vars, exceptions_vars, builder_vars, generator_vars,
                   async_vars>>

\* One iteration of the loop for a known provider whose scrape() called the
\* strategies `called` and returned or raised `data`.
Iteration(provider, called, data) ==
    /\ Scraping(provider)
    /\ results' = setitem(results, provider,
                          IF data.kind = "raise"
                          THEN [error |-> data.exc.message]
                          ELSE data.value)
    /\ invoked' = Append(invoked, provider)
    /\ scraped' = [provider |-> provider, methods |-> called, result |-> data]
    /\ cursor' = cursor + 1
    /\ UNCHANGED <<playwright_available, providers, formatted, client_vars,
                   config_vars, exceptions_vars, builder_vars, generator_vars,
                   async_vars>>

Scrape_openai ==
    \E browser \in BrowserOutcomes, http \in HttpOutcomes :
        LET s == OpenAIPricingScraper_scrape(playwright_available, browser, http)
        IN  Iteration("openai", s.methods, s.result)

Scrape_anthropic ==
    \E fetch \in Fetches :
        Iteration("anthropic", <<>>, AnthropicPricingScraper_scrape(fetch))

Scrape_google ==
    \E fetch \in Fetches :
        Iteration("google", <<>>, GoogleCloudPricingScraper_scrape(fetch))

Scrape_azure ==
    \E fetch \in Fetches :
        Iteration("azure", <<>>, AzureOpenAIPricingScraper_scrape(fetch))

\* `else: print(f"Unknown provider: {provider}")`.
Unknown_provider ==
    /\ cursor \in 1..Len(providers)
    /\ ~Known(providers[cursor])
    /\ cursor' = cursor + 1
    /\ UNCHANGED <<playwright_available, providers, results, invoked, scraped,
                   formatted, client_vars, config_vars, exceptions_vars,
                   builder_vars, generator_vars, async_vars>>

\* dict.get(key, default).
dict_get(d, key, default) == IF key \in DOMAIN d THEN d[key] ELSE default

\* The keys of a dict as for ... in d.items() visits them.  The dicts of
\* models keep no insertion order here: the order is fixed but arbitrary.
RECURSIVE keys(_)
keys(d) ==
    IF DOMAIN d = {} THEN <<>>
    ELSE LET k == CHOOSE x \in DOMAIN d : TRUE
         IN  <<k>> \o keys([x \in DOMAIN d \ {k} |-> d[x]])

\* The keys of results["providers"] in insertion order: the providers
\* scraped, each at its first position.
RECURSIVE insertion_order(_)
insertion_order(scrapes) ==
    IF scrapes = <<>> THEN <<>>
    ELSE LET front == insertion_order(SubSeq(scrapes, 1, Len(scrapes) - 1))
             last == scrapes[Len(scrapes)]
         IN  IF \E i \in 1..Len(front) : front[i] = last
             THEN front ELSE Append(front, last)

\* str.upper() of a provider name.
upper(provider_name) ==
    CASE provider_name = "openai" -> "OPENAI"
      [] provider_name = "anthropic" -> "ANTHROPIC"
      [] provider_name = "google" -> "GOOGLE"
      [] provider_name = "azure" -> "AZURE"

\* Prices with a 5 in the fourth decimal whose double lies above them, so
\* that :.3f rounds them up (0.0005, 0.0015, 0.0025); the others, 0.0375 of
\* the Gemini table among them, lie below and round down.
DoublesAboveTie == {5, 15, 25}

\* f"{price:.3f}": the price rounded to the nearest thousandth, as digits.
format3(price) ==
    LET q == price \div 10
        r == price % 10
        t == IF r > 5 \/ (r = 5 /\ price \in DoublesAboveTie) THEN q + 1 ELSE q
    IN  <<ToString(t \div 1000), ".", ToString((t \div 100) % 10),
          ToString((t \div 10) % 10), ToString(t % 10)>>

\* The lines of one model with the reasoning price always written.
GoEntry_with_reasoning(model_name, model_data) ==
    << <<"\t\"", model_name, "\": {">>,
       <<"\t\tInputTokenPrice:    ">>
           \o format3(dict_get(model_data, "input_price_per_1m", 0)) \o <<",">>,
       <<"\t\tOutputTokenPrice:   ">>
           \o format3(dict_get(model_data, "output_price_per_1m", 0)) \o <<",">>,
       <<"\t\tReasoningTokenPrice: ">>
           \o format3(dict_get(model_data, "reasoning_price_per_1m", 0))
           \o <<",">>,
       <<"\t},">> >>

\* The lines _format_go_pricing appends for one model.
GoEntry(model_name, model_data) ==
    LET input_price == dict_get(model_data, "input_price_per_1m", 0)
        output_price == dict_get(model_data, "output_price_per_1m", 0)
        reasoning_price == dict_get(model_data, "reasoning_price_per_1m", 0)
    IN  << <<"\t\"", model_name, "\": {">>,
           <<"\t\tInputTokenPrice:    ">> \o format3(input_price) \o <<",">>,
           <<"\t\tOutputTokenPrice:   ">> \o format3(output_price) \o <<",">> >>
        \o (IF reasoning_price > 0
            THEN << <<"\t\tReasoningTokenPrice: ">>
                    \o format3(reasoning_price) \o <<",">> >>
            ELSE <<>>)
        \o << <<"\t},">> >>

\* The inner loop over provider_data["models"].items().
RECURSIVE GoModels(_, _)
GoModels(model_names, models) ==
    IF model_names = <<>> THEN <<>>
    ELSE GoEntry(Head(model_names), models[Head(model_names)])
         \o GoModels(Tail(model_names), models)

\* The outer loop over data["providers"].items(): a slot without "models"
\* is skipped.
RECURSIVE GoProviders(_, _)
GoProviders(provider_names, data) ==
    IF provider_names = <<>> THEN <<>>
    ELSE LET provider_name == Head(provider_names)
             provider_data == data[provider_name]
         IN  (IF "models" \notin DOMAIN provider_data THEN <<>>
              ELSE << <<"\t// ", upper(provider_name), " Models">> >>
                   \o GoModels(keys(provider_data.models), provider_data.models)
                   \o << <<>> >>)
             \o GoProviders(Tail(provider_names), data)

\* PricingAggregator._format_go_pricing: the lines it joins with "\n".
_format_go_pricing(provider_names, data) ==
    << <<"// Auto-generated pricing data">>,
       <<"// Generated at: ", "now">>,
       <<>>,
       <<"var modelPricing = map[string]ModelPricing{">> >>
    \o GoProviders(provider_names, data)
    \o << <<"}">> >>

\* main: format_output(data, "go") on what scrape_all returned.
Format_go ==
    /\ cursor > Len(providers)
    /\ formatted = <<>>
    /\ formatted' = _format_go_pricing(insertion_order(invoked), results)
    /\ UNCHANGED <<playwright_available, providers, cursor, results, invoked,
                   scraped, client_vars, config_vars, exceptions_vars,
                   builder_vars, generator_vars, async_vars>>

NextScrape ==
    \/ \E providers_arg \in ProvidersArgs : scrape_all(providers_arg)
    \/ Scrape_openai
    \/ Scrape_anthropic
    \/ Scrape_google
    \/ Scrape_azure
    \/ Unknown_provider
    \/ Format_go

SpecScrape == InitScrape /\ [][NextScrape]_vars

-----------------------------------------------------------------------------
\* Properties of the pricing scrapers.

\* scrape_all has returned its results.
ScrapeAllReturned == cursor > Len(providers)

\* The slot is a dict with a non-empty "models" mapping.
HasModels(slot) == "models" \in DOMAIN slot /\ DOMAIN slot.models /= {}

\* C19: once scrape_all has returned, whatever the fetches did, every
\* requested provider has a slot in the results and that slot holds a
\* non-empty models mapping.
C19_EveryRequestedProviderHasModels ==
    ScrapeAllReturned =>
        \A i \in 1..Len(providers) :
            /\ providers[i] \in DOMAIN results
            /\ HasModels(results[providers[i]])

\* The order the strategies are to be tried in.
Waterfall ==
    <<"_scrape_with_playwright", "_scrape_with_enhanced_headers",
      "_get_fallback_pricing">>

\* The strategy returned a non-empty model mapping.
Yields(result) == result.kind = "return" /\ DOMAIN result.value /= {}

\* C20: a finished OpenAIPricingScraper.scrape has called a prefix of browser
\* automation, HTTP fetch with enhanced headers, fallback table, in that
\* order; every strategy before the last called one raised or returned an
\* empty mapping (browser automation raised when its runtime is unavailable);
\* the last called one yielded a non-empty mapping, and scrape returned,
\* without raising, a result whose models are that mapping.
C20_WaterfallFirstSuccess ==
    scraped.provider = "openai" =>
        LET called == scraped.methods
            n == Len(called)
        IN  /\ n \in 1..Len(Waterfall)
            /\ \A i \in 1..n : called[i].method = Waterfall[i]
            /\ \A i \in 1..(n - 1) : ~Yields(called[i].result)
            /\ ~playwright_available => called[1].result.kind = "raise"
            /\ Yields(called[n].result)
            /\ scraped.result.kind = "return"
            /\ scraped.result.value.models = called[n].result.value

\* The browser runtime is unavailable, the HTTP fetch failed, and scrape
\* returned the fallback table.
C20_Witness ==
    /\ scraped.provider = "openai"
    /\ ~playwright_available
    /\ Len(scraped.methods) = 3
    /\ scraped.methods[1].result.exc.cls = "ImportError"
    /\ scraped.methods[2].result.kind = "raise"
    /\ scraped.result.kind = "return"
    /\ scraped.result.value.models = _get_fallback_pricing

\* scrape returned the hardcoded fallback table: the strategies before it
\* raised or yielded nothing.
FallbackUsed ==
    /\ scraped.provider = "openai"
    /\ scraped.result.kind = "return"
    /\ scraped.result.value.models = _get_fallback_pricing

\* C21: a result of OpenAIPricingScraper.scrape that consists of the fallback
\* table carries a note that says fallback data was used and ends with the
\* message of the last error of the strategies that failed.
C21_FallbackCarriesNote ==
    FallbackUsed =>
        /\ "note" \in DOMAIN scraped.result.value
        /\ \A i \in 1..Len(scraped.methods) :
               scraped.methods[i].result.kind = "raise" =>
                   \E j \in i..Len(scraped.methods) :
                       /\ scraped.methods[j].result.kind = "raise"
                       /\ Contains(scraped.result.value.note,
                                   scraped.methods[j].result.exc.message)

\* C22: scrape_all calls scrape() once for each known provider of the list it
\* has passed, in the list's order, and for no other; when a scrape() raised,
\* that provider's slot is the error's string; once scrape_all has returned,
\* every requested known provider has been scraped and has a slot.
C22_OncePerProviderInOrder ==
    /\ invoked = SelectSeq(SubSeq(providers, 1, cursor - 1), Known)
    /\ scraped.result.kind = "raise" =>
           results[scraped.provider] = [error |-> scraped.result.exc.message]
    /\ ScrapeAllReturned =>
           \A i \in 1..Len(providers) :
               Known(providers[i]) => providers[i] \in DOMAIN results

\* The first of two providers raised, its slot holds the error string, and
\* the second was scraped after it and has its models.
C22_Witness ==
    /\ ScrapeAllReturned
    /\ Len(providers) = 2
    /\ providers[1] /= providers[2]
    /\ invoked = providers
    /\ "error" \in DOMAIN results[providers[1]]
    /\ results[providers[1]].error = <<"markup rejected">>
    /\ HasModels(results[providers[2]])

\* format_output(data, "go") has returned.
Formatted == formatted /= <<>>

\* The line that opens the entry of a model.
EntryOpen(model_name) == <<"\t\"", model_name, "\": {">>

\* Line i of the output sets the named price field.
IsField(i, field) ==
    /\ i \in 1..Len(formatted)
    /\ Len(formatted[i]) > 0
    /\ formatted[i][1] = field

\* The models of the slots that have a models mapping.
SlotModels ==
    UNION {DOMAIN results[p].models :
             p \in {q \in DOMAIN results : "models" \in DOMAIN results[q]}}

ModelDataOf(model_name) ==
    LET p == CHOOSE q \in DOMAIN results :
                 /\ "models" \in DOMAIN results[q]
                 /\ model_name \in DOMAIN results[q].models
    IN  results[p].models[model_name]

\* C23: in the Go output every model of a slot with a models mapping has
\* exactly one entry; the entry sets the input and the output price, and sets
\* the reasoning price iff the model has a non-zero one; there is no other
\* entry, so slots with only an error contribute none.
C23_GoEntries ==
    Formatted =>
        /\ \A m \in SlotModels :
               \E i \in 1..Len(formatted) :
                   /\ formatted[i] = EntryOpen(m)
                   /\ \A j \in 1..Len(formatted) : formatted[j] = EntryOpen(m) => j = i
                   /\ IsField(i + 1, "\t\tInputTokenPrice:    ")
                   /\ IsField(i + 2, "\t\tOutputTokenPrice:   ")
                   /\ IsField(i + 3, "\t\tReasoningTokenPrice: ")
                          <=> /\ "reasoning_price_per_1m" \in DOMAIN ModelDataOf(m)
                              /\ ModelDataOf(m).reasoning_price_per_1m /= 0
        /\ \A i \in 1..Len(formatted) :
               IsField(i, "\t\"") => \E m \in SlotModels : formatted[i] = EntryOpen(m)

\* The output of a run in which Google's models were found and Anthropic's
\* slot holds an error: gemini-2.5-pro has its reasoning price, gemini-1.5-pro
\* has none.
C23_Witness ==
    /\ Formatted
    /\ DOMAIN results = {"anthropic", "google"}
    /\ "models" \in DOMAIN results["google"]
    /\ "error" \in DOMAIN results["anthropic"]
    /\ \E i \in 1..Len(formatted) :
           /\ formatted[i] = EntryOpen("gemini-2.5-pro")
           /\ IsField(i + 3, "\t\tReasoningTokenPrice: ")
    /\ \E i \in 1..Len(formatted) :
           /\ formatted[i] = EntryOpen("gemini-1.5-pro")
           /\ formatted[i + 3] = <<"\t},">>

-----------------------------------------------------------------------------
\* provider/vertex/vertex_generator.py and provider/vclaude/vclaude_generator.py:
\* the generators of the Vertex variants of the provider files.

\* Longest --srcs or --outs list.
MaxFiles == 2

\* The line replace_content puts first.
auto_generated_comment ==
    "// This file is auto-generated. Do not edit manually.\n\n"

\* content.replace(old, new) of vertex_generator.replace_content on a
\* fragment of the text; a file is a sequence of fragments, each one of the
\* old strings or text none of them occurs in.
vertex_replace(fragment) ==
    CASE fragment = "package studio" -> "package vertex"
      [] fragment = "\n\t\"google.golang.org/api/option\"" -> ""
      [] fragment = "func NewEndpoint(apiKey string)" ->
            "func NewEndpoint(projectId string, region string)"
      [] fragment = "return \"studio\"" -> "return \"vertex\""
      [] OTHER -> fragment

\* The same of vclaude_generator.replace_content.
vclaude_replace(fragment) ==
    CASE fragment = "package claude" -> "package vclaude"
      [] fragment = "\"github.com/anthropics/anthropic-sdk-go/option\"" ->
            "\"github.com/anthropics/anthropic-sdk-go/vertex\""
      [] fragment = "return \"claude\"" -> "return \"vclaude\""
      [] fragment = "claude-3-haiku-20240307" -> "claude-3-haiku@20240307"
      [] OTHER -> fragment

replace_content(generator, content) ==
    <<auto_generated_comment>>
    \o [i \in 1..Len(content) |->
          IF generator = "vertex" THEN vertex_replace(content[i])
          ELSE vclaude_replace(content[i])]

\* Paths given on the command line and what each holds at the start.
Paths == {"a.go", "b.go", "c.go"}

Source(path) ==
    CASE path = "a.go" -> <<"package studio", "return \"studio\"">>
      [] path = "b.go" -> <<"package claude", "claude-3-haiku-20240307">>
      [] path = "c.go" -> <<"package main">>

\* A path names a file that can be read and written, nothing (open(path, 'r')
\* raises FileNotFoundError, open(path, 'w') creates it), or a file without
\* write permission (open(path, 'w') raises PermissionError).
File(kind, content) == [kind |-> kind, content |-> content]

FileStates(path) ==
    {File("file", Source(path)), File("missing", <<>>),
     File("readonly", Source(path))}

PathLists == UNION {[1..n -> Paths] : n \in 0..MaxFiles}

InitGenerator ==
    /\ files \in {f \in [Paths -> UNION {FileStates(p) : p \in Paths}] :
                    \A p \in Paths : f[p] \in FileStates(p)}
    /\ argv \in [generator : {"vertex", "vclaude"}, srcs : PathLists,
                 outs : PathLists]
    /\ pair = 0
    /\ io = <<>>
    /\ exit_code = ""
    /\ stdout = <<>>
    /\ tenant_id = None
    /\ ClientIdle
    /\ ConfigIdle
    /\ ExceptionsIdle
    /\ BuilderIdle
    /\ ScraperIdle
    /\ AsyncIdle

\* One open-and-read or open-and-write of process_files.
IO(operation, i, path, ok, content) ==
    [op |-> operation, pair |-> i, path |-> path, ok |-> ok,
     content |-> content]

\* process_files without its check of the lengths: zip stops at the shorter
\* list.
process_files_unchecked ==
    /\ pair = 0
    /\ exit_code = ""
    /\ pair' = 1
    /\ exit_code' = IF Len(argv.srcs) = 0 \/ Len(argv.outs) = 0
                    THEN "return" ELSE ""
    /\ UNCHANGED <<files, argv, io, stdout, client_vars, config_vars,
                   exceptions_vars, builder_vars, scraper_vars, async_vars>>

\* process_files up to its loop: ValueError when the lists differ in length.
process_files ==
    /\ pair = 0
    /\ exit_code = ""
    /\ pair' = IF Len(argv.srcs) /= Len(argv.outs) THEN 0 ELSE 1
    /\ exit_code' = IF Len(argv.srcs) /= Len(argv.outs) THEN "ValueError"
                    ELSE IF Len(argv.srcs) = 0 THEN "return" ELSE ""
    /\ UNCHANGED <<files, argv, io, stdout, client_vars, config_vars,
                   exceptions_vars, builder_vars, scraper_vars, async_vars>>

\* What the loop body of process_files does with the pair (src_file,
\* out_file) numbered i: the reads and writes it makes, the file system it
\* leaves, the line it prints, and whether an IOError was caught.
LoopBody(i, src_file, out_file) ==
    IF files[src_file].kind = "missing"
    THEN [io |-> <<IO("read", i, src_file, FALSE, <<>>)>>,
          files |-> files,
          printed |-> <<"Error processing file ", src_file>>,
          failed |-> TRUE]
    ELSE LET content == files[src_file].content
             modified_content == replace_content(argv.generator, content)
             read == IO("read", i, src_file, TRUE, content)
         IN  IF files[out_file].kind = "readonly"
             THEN [io |-> <<read, IO("write", i, out_file, FALSE, <<>>)>>,
                   files |-> files,
                   printed |-> <<"Error processing file ", src_file>>,
                   failed |-> TRUE]
             ELSE [io |-> <<read,
                            IO("write", i, out_file, TRUE, modified_content)>>,
                   files |-> [files EXCEPT
                                ![out_file] = File("file", modified_content)],
                   printed |-> <<"Generated ", out_file, " successfully.">>,
                   failed |-> FALSE]

\* An iteration that goes on with the next pair after an IOError.
Process_pair_continue ==
    /\ exit_code = ""
    /\ pair \in 1..Len(argv.srcs)
    /\ pair <= Len(argv.outs)
    /\ LET body == LoopBody(pair, argv.srcs[pair], argv.outs[pair])
       IN  /\ io' = io \o body.io
           /\ files' = body.files
           /\ stdout' = Append(stdout, body.printed)
           /\ exit_code' = IF pair = Len(argv.srcs) \/ pair = Len(argv.outs)
                           THEN IF body.failed THEN "exit 1" ELSE "return"
                           ELSE ""
           /\ pair' = pair + 1
    /\ UNCHANGED <<argv, client_vars, config_vars, exceptions_vars,
                   builder_vars, scraper_vars, async_vars>>

\* One iteration of the loop over zip(src_files, out_files); sys.exit(1) in
\* the handler of IOError ends the process.
Process_pair ==
    /\ exit_code = ""
    /\ pair \in 1..Len(argv.srcs)
    /\ pair <= Len(argv.outs)
    /\ LET body == LoopBody(pair, argv.srcs[pair], argv.outs[pair])
       IN  /\ io' = io \o body.io
           /\ files' = body.files
           /\ stdout' = Append(stdout, body.printed)
           /\ exit_code' = IF body.failed THEN "exit 1"
                           ELSE IF pair = Len(argv.srcs) \/ pair = Len(argv.outs)
                           THEN "return" ELSE ""
           /\ pair' = IF body.failed THEN pair ELSE pair + 1
    /\ UNCHANGED <<argv, client_vars, config_vars, exceptions_vars,
                   builder_vars, scraper_vars, async_vars>>

NextGenerator ==
    \/ process_files
    \/ Process_pair

SpecGenerator == InitGenerator /\ [][NextGenerator]_vars

-----------------------------------------------------------------------------
\* Properties of the generators.

Reads == SelectSeq(io, LAMBDA e : e.op = "read")

Writes == SelectSeq(io, LAMBDA e : e.op = "write")

\* C24: when process_files has returned, the lists had the same length n and
\* it made n reads and n writes, all successful: the i-th read is of the i-th
\* source, the i-th write follows it, goes to the i-th output path and writes
\* replace_content of what that read returned.  When the lists differ in
\* length, no file is ever read or written and the call ends with ValueError.
C24_OneOutputPerPair ==
    /\ exit_code = "return" =>
           /\ Len(argv.srcs) = Len(argv.outs)
           /\ Len(io) = 2 * Len(argv.srcs)
           /\ \A i \in 1..Len(argv.srcs) :
                  /\ io[2 * i - 1] = IO("read", i, argv.srcs[i], TRUE,
                                        io[2 * i - 1].content)
                  /\ io[2 * i] =
                         IO("write", i, argv.outs[i], TRUE,
                            replace_content(argv.generator,
                                            io[2 * i - 1].content))
    /\ Len(argv.srcs) /= Len(argv.outs) =>
           /\ io = <<>>
           /\ exit_code \in {"", "ValueError"}
           /\ pair = 0

\* Two pairs, both written: the second output holds the generated form of
\* the second source.
C24_Witness ==
    /\ exit_code = "return"
    /\ Len(argv.srcs) = 2
    /\ argv.srcs[1] /= argv.srcs[2]
    /\ argv.outs[1] /= argv.outs[2]
    /\ Len(Writes) = 2
    /\ files[argv.outs[2]].content = replace_content(argv.generator,
                                                     Reads[2].content)

\* process_files caught an IOError at the pair the loop is at.
Exited == exit_code = "exit 1"

\* The state after an IOError at pair k: the failed read or write is the
\* last one made and belongs to pair k, a diagnostic naming the source was
\* the last line printed, every earlier pair was read and written, and the
\* output of an earlier pair still holds what was written to it unless a
\* later pair before k wrote the same path.
ExitedAtPair ==
    Exited =>
        /\ pair \in 1..Len(argv.srcs)
        /\ io /= <<>>
        /\ ~io[Len(io)].ok
        /\ io[Len(io)].pair = pair
        /\ \A n \in 1..Len(io) : io[n].pair <= pair
        /\ \A n \in 1..(Len(io) - 1) : io[n].ok
        /\ stdout[Len(stdout)] = <<"Error processing file ", argv.srcs[pair]>>
        /\ Len(Writes) >= pair - 1
        /\ \A i \in 1..(pair - 1) :
               /\ Writes[i] = IO("write", i, argv.outs[i], TRUE,
                                 Writes[i].content)
               /\ (\A j \in (i + 1)..(pair - 1) : argv.outs[j] /= argv.outs[i])
                      => files[argv.outs[i]] = File("file", Writes[i].content)

\* C25: an IOError at pair k ends the run with status 1 after a diagnostic;
\* the pairs before k have been written and are left in place, and from then
\* on nothing is read, written or printed.
C25_ExitAtFailedPair ==
    /\ []ExitedAtPair
    /\ [][Exited => io' = io /\ files' = files /\ stdout' = stdout]_vars

\* The first pair was written, the second failed, and the first output is
\* still in place.
C25_Witness ==
    /\ Exited
    /\ pair = 2
    /\ argv.outs[1] /= argv.outs[2]
    /\ Len(Writes) = 2
    /\ ~Writes[2].ok
    /\ files[argv.outs[1]] = File("file", Writes[1].content)

-----------------------------------------------------------------------------
\* Properties of the streaming transport.

\* The first next() on the chunk iterator has run: the request was sent and
\* the transport iterator was started.
IterationBegun == op.stream /\ sent = 1 /\ pc /= "opening"

\* What holds of a stream whose iteration has begun: __exit__ has been called
\* at most once, and exactly once iff the transport iterator has ended or
\* was closed; when the consumer is done with the stream the response has
\* been closed, unless the chunk iterator raised and left the transport
\* iterator suspended for its finalizer.
ClosedOnce ==
    IterationBegun =>
        /\ exits <= 1
        /\ exits = 1 <=> gen \in {"finished", "closed"}
        /\ pc = "done" =>
               \/ exits = 1
               \/ gen = "suspended" /\ outcome.kind = "raise"

-----------------------------------------------------------------------------
\* Properties of the classification of server errors.

\* C28: for a status of 500 or more and any error body, the exception
\* create_exception_from_response returns is one that is_retryable_error
\* classifies as retryable.
C28_ServerErrorsRetryable ==
    (/\ Called("create_exception_from_response")
     /\ args.status_code >= 500
     /\ ret.kind = "return") => is_retryable_error(ret.value)

\* The operation ended with an error raised for a transport timeout, a
\* refused connection, a 429 response or a 5xx response.
RaisedForRetryableCause ==
    /\ pc = "done"
    /\ sent = 1
    /\ outcome.kind = "raise"
    /\ \/ /\ response = NoResponse
          /\ outcome.exc.cause \in {"httpx.TimeoutException", "httpx.ConnectError"}
       \/ response.status_code = 429
       \/ response.status_code >= 500

\* C29: every error the client raises for a transport timeout, a connection
\* failure, a 429 or a 5xx response is one that is_retryable_error
\* classifies as retryable.
C29_RaisedErrorsRetryable ==
    RaisedForRetryableCause => is_retryable_error(outcome.exc)

-----------------------------------------------------------------------------
(* client.py: AsyncClient.  Its operations are coroutines: calling one     *)
(* creates the coroutine, whose body runs only once the event loop runs    *)
(* it; _make_request then builds the headers and suspends on the           *)
(* transport, and resumes with the answer to its own request.              *)

MaxTasks == 2

\* AsyncClient.health and AsyncClient.stats.
AsyncOps == {"health", "stats"}

\* Tenant ids the caller sets on the client.
AsyncTenants == {None, Str(<<"t1">>), Str(<<"t2">>)}

\* What the transport does with a request, and the answer of the server.
AsyncAnswers ==
    { <<"ok", Response(200, Body(<<"{...}">>, TRUE,
                                 Obj([status |-> Str(<<"healthy">>)])))>>,
      <<"ok", Response(429, Body(<<>>, FALSE, None))>>,
      <<"timeout", NoResponse>> }

\* A coroutine of an operation; issued_with is self.tenant_id when the
\* operation was called, started_with when _make_request ran.
Task(name, state, issued_with, started_with, headers, transport, resp, result) ==
    [op |-> name, state |-> state, issued_with |-> issued_with,
     started_with |-> started_with, headers |-> headers,
     transport |-> transport, response |-> resp, outcome |-> result]

InitAsync ==
    /\ config = Config("AsyncClient", Str(<<"http://host">>), Str(<<"k1">>), FALSE)
    /\ request = NoRequest
    /\ max_retries = 3
    /\ tenant_id \in AsyncTenants
    /\ ClientIdle
    /\ ExceptionsIdle
    /\ BuilderIdle
    /\ ScraperIdle
    /\ GeneratorIdle
    /\ AsyncIdle

\* client.health(), client.stats(): the coroutine is created, none of its
\* body has run.
AsyncClient_call(name) ==
    /\ Len(tasks) < MaxTasks
    /\ tasks' = Append(tasks, Task(name, "created", tenant_id, None, <<>>,
                                   "", NoResponse, NoResult))
    /\ UNCHANGED <<client_vars, config_vars, exceptions_vars, builder_vars,
                   scraper_vars, generator_vars>>

\* Mutant: the headers are built when the operation is called.
AsyncClient_start_eager(i) ==
    /\ i \in DOMAIN tasks
    /\ tasks[i].state = "created"
    /\ tasks' = [tasks EXCEPT ![i] =
            Task(@.op, "in flight", @.issued_with, tenant_id,
                 request_headers(config.kind, config.api_key, @.issued_with,
                                 FALSE),
                 "", NoResponse, NoResult)]
    /\ UNCHANGED <<client_vars, config_vars, exceptions_vars, builder_vars,
                   scraper_vars, generator_vars>>

\* The event loop runs the coroutine: _make_request builds the headers
\* from the client and suspends at `await self._client.request(...)`.
AsyncClient_start(i) ==
    /\ i \in DOMAIN tasks
    /\ tasks[i].state = "created"
    /\ tasks' = [tasks EXCEPT ![i] =
            Task(@.op, "in flight", @.issued_with, tenant_id,
                 request_headers(config.kind, config.api_key, tenant_id, FALSE),
                 "", NoResponse, NoResult)]
    /\ UNCHANGED <<client_vars, config_vars, exceptions_vars, builder_vars,
                   scraper_vars, generator_vars>>

\* The transport answers the request of task i or fails it; the coroutine
\* resumes, handles the response and returns or raises.
AsyncClient_complete(i, transport, resp) ==
    /\ i \in DOMAIN tasks
    /\ tasks[i].state = "in flight"
    /\ tasks' = [tasks EXCEPT ![i] =
            Task(@.op, "done", @.issued_with, @.started_with, @.headers,
                 transport, resp, _make_request(transport, resp))]
    /\ UNCHANGED <<client_vars, config_vars, exceptions_vars, builder_vars,
                   scraper_vars, generator_vars>>

NextAsync ==
    \/ \E name \in AsyncOps : AsyncClient_call(name)
    \/ \E i \in 1..MaxTasks : AsyncClient_start(i)
    \/ \E i \in 1..MaxTasks, answer \in AsyncAnswers :
          AsyncClient_complete(i, answer[1], answer[2])
    \/ \E t \in AsyncTenants : set_tenant_id(t)

SpecAsync == InitAsync /\ [][NextAsync]_vars

\* The requests that have been handed to the transport.
Started == {i \in DOMAIN tasks : tasks[i].state /= "created"}

\* C30 as stated: the headers of a request carry the credential and the
\* tenant id the client had when the operation was called.
C30_HeadersFixedAtCall ==
    \A i \in Started :
        tasks[i].headers = request_headers(config.kind, config.api_key,
                                           tasks[i].issued_with, FALSE)

\* A request resumes with the outcome of the answer to it.
OwnOutcome(task) ==
    task.state = "done" =>
        task.outcome = _make_request(task.transport, task.response)

\* C30: with AsyncClient the headers of a request are those of the
\* client when its coroutine first runs, before it suspends on the
\* transport; from then on they never change, so a set_tenant_id executed
\* while requests are in flight alters none of them and shows only in
\* requests started afterwards; and each request completes with the outcome
\* of the answer to it, whatever the order of completion.
C30_HeadersFixedAtStart ==
    /\ [](\A i \in Started :
            /\ tasks[i].headers = request_headers(config.kind, config.api_key,
                                                  tasks[i].started_with, FALSE)
            /\ OwnOutcome(tasks[i]))
    /\ [][/\ \A i \in Started :
                /\ i \in DOMAIN tasks'
                /\ tasks'[i].headers = tasks[i].headers
                /\ tasks'[i].started_with = tasks[i].started_with
                /\ tasks[i].state = "done" => tasks'[i] = tasks[i]
          /\ tenant_id' /= tenant_id => tasks' = tasks
          /\ \A i \in DOMAIN tasks :
                (tasks[i].state = "created" /\ tasks'[i].state /= "created")
                    => tasks'[i].started_with = tenant_id]_vars

\* Two requests are in flight with different tenant headers, the first
\* was called under another tenant id than it was started with, and the
\* second has completed before the first.
C30_Witness ==
    /\ Len(tasks) = 2
    /\ tasks[1].state = "in flight"
    /\ tasks[2].state = "done"
    /\ tasks[2].outcome.kind = "return"
    /\ tasks[1].issued_with /= tasks[1].started_with
    /\ tasks[1].headers /= tasks[2].headers
    /\ "X-Tenant-ID" \in DOMAIN tasks[1].headers
    /\ tenant_id /= tasks[1].started_with

=============================================================================
